---- MODULE Spec2Model ----
(***************************************************************************)
(* Model of the campus-FAQ chatbot backend core:                           *)
(*   - ConversationContext and ContextManager (app/core/context.py)        *)
(*   - IntentDetector (app/core/intent.py)                                 *)
(*   - ChatbotService.process_message (app/core/chatbot.py)                *)
(*                                                                         *)
(* Conventions.                                                            *)
(*   - Python None / Optional[x] is a sequence of length 0 or 1:           *)
(*     None is << >>, a present value x is << x >>.                        *)
(*   - Confidences and scores are exact hundredths (0.7 is 70).            *)
(*   - datetime.utcnow() is the variable now, a clock that never runs      *)
(*     backwards; one tick is 30 minutes.                                  *)
(*   - An OrderedDict is the sequence of its values in iteration order    *)
(*     (the key of a context is its session_id).                           *)
(*   - A dict is the set of its <<key, value>> pairs.                      *)
(***************************************************************************)
EXTENDS Integers, Sequences, FiniteSets, TLC

\* ------------------------------------------------------------------ bounds

\* ContextManager(max_sessions=...): the ceiling of the store under test.
MaxSessions == 2
\* ConversationContext(max_messages=...): the message bound of a context.
MaxMessages == 2
\* The clock stops advancing at MaxTime.
MaxTime == 2

\* ------------------------------------------------------- program constants

\* session_timeout_minutes = 30, in ticks of 30 minutes.
SessionTimeout == 1
\* add_intent keeps the last 5 intents.
MaxIntentHistory == 5
\* get_history_as_text(limit=3) as called by get_context_prompt.
HistoryLimit == 3

\* ----------------------------------------------------------------- helpers

NoneV == << >>
Some(x) == << x >>
IsNone(o) == o = << >>

Min(a, b) == IF a <= b THEN a ELSE b
Max(a, b) == IF a >= b THEN a ELSE b

\* s[-n:] for n >= 1
LastN(s, n) == IF Len(s) <= n THEN s ELSE SubSeq(s, Len(s) - n + 1, Len(s))

\* dict.update(new) on dicts given as sets of <<key, value>> pairs
DictUpdate(old, new) ==
    {p \in old : ~\E q \in new : q[1] = p[1]} \cup new

\* ----------------------------------------------- ConversationContext (pure)

\* ConversationContext.__init__ at clock value t
NewContext(sid, lang, t) ==
    [ session_id     |-> sid,
      language       |-> lang,
      messages       |-> << >>,
      max_messages   |-> MaxMessages,
      created_at     |-> t,
      updated_at     |-> t,
      entities       |-> {},
      intent_history |-> << >> ]

\* mutant: the trim to the last max_messages is missing
add_message_NoTrim(ctx, role, content, language, metadata, t) ==
    [ctx EXCEPT !.messages = Append(ctx.messages,
                    [ role |-> role, content |-> content,
                      language |-> IF IsNone(language) THEN ctx.language
                                   ELSE language[1],
                      timestamp |-> t, metadata |-> metadata ]),
                !.updated_at = t]

\* ConversationContext.add_message
add_message(ctx, role, content, language, metadata, t) ==
    LET message == [ role      |-> role,
                     content   |-> content,
                     language  |-> IF IsNone(language) THEN ctx.language
                                   ELSE language[1],
                     timestamp |-> t,
                     metadata  |-> metadata ]
        appended == Append(ctx.messages, message)
    IN  [ctx EXCEPT !.messages = IF Len(appended) > ctx.max_messages
                                 THEN LastN(appended, ctx.max_messages)
                                 ELSE appended,
                    !.updated_at = t]

NoMetadata == [sources |-> NoneV, confidence |-> NoneV]

\* ConversationContext.add_user_message
add_user_message_Dropped(ctx, content, language, t) ==
    [ctx EXCEPT !.updated_at = t]

add_user_message(ctx, content, language, t) ==
    add_message(ctx, "user", content, language, NoMetadata, t)

\* mutant: sources and confidence are not put into the metadata
add_assistant_message_NoMetadata(ctx, content, language, sources, confidence, t) ==
    add_message(ctx, "assistant", content, language, NoMetadata, t)

\* ConversationContext.add_assistant_message: the "sources" key is set only
\* for a truthy list, the "confidence" key only for a value that is not None
add_assistant_message(ctx, content, language, sources, confidence, t) ==
    LET metadata ==
          [ sources    |-> IF ~IsNone(sources) /\ Len(sources[1]) > 0
                           THEN sources ELSE NoneV,
            confidence |-> confidence ]
    IN  add_message(ctx, "assistant", content, language, metadata, t)

\* mutant: the new entities are not merged
update_entities_Skip(ctx, new_entities, t) == [ctx EXCEPT !.updated_at = t]

\* ConversationContext.update_entities
update_entities(ctx, new_entities, t) ==
    [ctx EXCEPT !.entities = DictUpdate(ctx.entities, new_entities),
                !.updated_at = t]

\* mutant: the first five intents are kept instead of the last five
add_intent_KeepFirst(ctx, intent) ==
    LET h == Append(ctx.intent_history, intent)
    IN  [ctx EXCEPT !.intent_history =
            IF Len(h) > MaxIntentHistory THEN SubSeq(h, 1, MaxIntentHistory) ELSE h]

\* ConversationContext.add_intent (updated_at is not assigned)
add_intent(ctx, intent) ==
    LET h == Append(ctx.intent_history, intent)
    IN  [ctx EXCEPT !.intent_history =
            IF Len(h) > MaxIntentHistory THEN LastN(h, MaxIntentHistory) ELSE h]

\* mutant: the first limit messages instead of the last
get_history_Oldest(ctx, limit) ==
    SubSeq(ctx.messages, 1, Min(limit, Len(ctx.messages)))

\* ConversationContext.get_history
get_history(ctx, limit) == LastN(ctx.messages, limit)

\* ---------------------------------------------------- ContextManager (pure)

\* session_id in self.sessions
Held(ss, sid) == \E i \in DOMAIN ss : ss[i].session_id = sid

IndexOf(ss, sid) == CHOOSE i \in DOMAIN ss : ss[i].session_id = sid

RemoveAt(ss, i) == SubSeq(ss, 1, i - 1) \o SubSeq(ss, i + 1, Len(ss))

SessionIdsOf(ss) == {ss[i].session_id : i \in DOMAIN ss}

\* ContextManager.get_session
get_session(ss, sid) ==
    IF Held(ss, sid) THEN Some(ss[IndexOf(ss, sid)]) ELSE NoneV

\* ContextManager.get_session_count
get_session_count(ss) == Len(ss)

\* mutant: a hit leaves the order as it is
move_to_end_Stay(ss, sid) == ss

\* OrderedDict.move_to_end
move_to_end(ss, sid) ==
    LET i == IndexOf(ss, sid) IN Append(RemoveAt(ss, i), ss[i])

\* mutant: a session idle for exactly the timeout already counts as expired
IsExpired_AtTimeout(ctx, t) == t - ctx.updated_at >= SessionTimeout

\* the test of the expired list: now - ctx.updated_at > self.session_timeout
IsExpired(ctx, t) == t - ctx.updated_at > SessionTimeout

\* the loop "while len(self.sessions) > self.max_sessions: delete the first"
RECURSIVE RemoveOldest(_)
RemoveOldest(ss) ==
    IF Len(ss) > MaxSessions THEN RemoveOldest(Tail(ss)) ELSE ss

\* mutant: the ceiling removes from the most recently used end
cleanup_old_sessions_DropNewest(ss, t) ==
    LET live == SelectSeq(ss, LAMBDA c : ~IsExpired(c, t))
    IN  SubSeq(live, 1, Min(Len(live), MaxSessions))

\* mutant: only the expired sessions go, the ceiling is not enforced
cleanup_old_sessions_TtlOnly(ss, t) ==
    SelectSeq(ss, LAMBDA c : ~IsExpired(c, t))

\* ContextManager._cleanup_old_sessions at clock value t
cleanup_old_sessions(ss, t) ==
    RemoveOldest(SelectSeq(ss, LAMBDA c : ~IsExpired(c, t)))

\* ContextManager.get_or_create_session: the store afterwards
get_or_create_session_CleanOnHit(ss, sid, lang, t) ==
    IF Held(ss, sid)
    THEN cleanup_old_sessions(move_to_end(ss, sid), t)
    ELSE cleanup_old_sessions(Append(ss, NewContext(sid, lang, t)), t)

get_or_create_session(ss, sid, lang, t) ==
    IF Held(ss, sid)
    THEN move_to_end(ss, sid)
    ELSE cleanup_old_sessions(Append(ss, NewContext(sid, lang, t)), t)

\* ContextManager.get_or_create_session: the context it returns
returned_context(ss, sid, lang, t) ==
    IF Held(ss, sid) THEN ss[IndexOf(ss, sid)] ELSE NewContext(sid, lang, t)

\* mutant: the oldest session is deleted instead of the one named
clear_session_RemoveFirst(ss, sid) ==
    IF Held(ss, sid) THEN Tail(ss) ELSE ss

\* ContextManager.clear_session: the store afterwards
clear_session(ss, sid) ==
    IF Held(ss, sid) THEN RemoveAt(ss, IndexOf(ss, sid)) ELSE ss

\* ----------------------------------------------------------------- strings
\* Texts are TLA+ strings.  The model's texts are ASCII (TLA+ strings cannot
\* hold other characters); a keyword or canned string that is written in an
\* Indian script in the source appears as an ASCII stand-in, the keywords in
\* angle brackets so that no model text can contain them.

UpperCase == "ABCDEFGHIJKLMNOPQRSTUVWXYZ"
LowerCase == "abcdefghijklmnopqrstuvwxyz"

CharAt(s, i) == SubSeq(s, i, i)

\* s with every character of from replaced by its counterpart in to
RECURSIVE MapChars(_, _, _)
MapChars(s, from, to) ==
    IF Len(s) = 0 THEN ""
    ELSE LET c == CharAt(s, 1)
         IN  (IF \E i \in 1 .. Len(from) : CharAt(from, i) = c
              THEN CharAt(to, CHOOSE i \in 1 .. Len(from) : CharAt(from, i) = c)
              ELSE c) \o MapChars(SubSeq(s, 2, Len(s)), from, to)

\* str.lower(), str.upper(), str.capitalize()
lower(s) == MapChars(s, UpperCase, LowerCase)
upper(s) == MapChars(s, LowerCase, UpperCase)
capitalize(s) ==
    IF Len(s) = 0 THEN "" ELSE upper(CharAt(s, 1)) \o lower(SubSeq(s, 2, Len(s)))

\* k in t
Contains(t, k) ==
    \E i \in 1 .. (Len(t) - Len(k) + 1) : SubSeq(t, i, i + Len(k) - 1) = k

\* "\n".join(lines)
RECURSIVE JoinLines(_)
JoinLines(lines) ==
    IF Len(lines) = 0 THEN ""
    ELSE IF Len(lines) = 1 THEN lines[1]
    ELSE lines[1] \o "\n" \o JoinLines(Tail(lines))

\* --------------------------------------------------- context prompt (pure)

\* ConversationContext.get_history_as_text
get_history_as_text(ctx, limit) ==
    LET history == get_history(ctx, limit)
    IN  JoinLines([i \in DOMAIN history |->
            capitalize(history[i].role) \o ": " \o history[i].content])

\* ContextManager.get_context_prompt
get_context_prompt(ss, sid, current_query) ==
    IF ~Held(ss, sid) \/ ss[IndexOf(ss, sid)].messages = << >>
    THEN current_query
    ELSE LET history_text == get_history_as_text(ss[IndexOf(ss, sid)], HistoryLimit)
         IN  IF history_text = "" THEN current_query
             ELSE "Previous conversation:\n" \o history_text
                  \o "\n\nCurrent question: " \o current_query
                  \o "\n\nPlease consider the conversation context when answering."

\* ------------------------------------------------------ constants.py tables

\* LanguageEnum
LanguageEnum == {"en", "hi", "ta", "te", "bn", "mr"}

\* the languages of the model's requests and detections; the entries of the
\* four other languages have the same shape
ModelLanguages == {"en", "hi"}

\* LANGUAGES[code]: the canned strings
LANGUAGES ==
    [ code \in ModelLanguages |->
        IF code = "en"
        THEN [ greeting |-> "Hello! How can I help you today?",
               fallback |-> "I'm sorry, I couldn't understand that. Could you please rephrase?",
               error    |-> "Something went wrong. Please try again." ]
        ELSE [ greeting |-> "Namaste! Aaj main aapki kaise madad kar sakta hoon?",
               fallback |-> "Mujhe khed hai, main yah samajh nahin paya. Kripya dobara kahen.",
               error    |-> "Kuchh galat ho gaya. Kripya punah prayas karen." ] ]

\* goodbye_messages of process_message
goodbye_messages ==
    [ code \in ModelLanguages |->
        IF code = "en"
        THEN "Goodbye! Feel free to ask if you have more questions."
        ELSE "Alvida! Agar aapke aur savaal hon to poochhen." ]

\* INTENT_KEYWORDS, in insertion order
INTENT_KEYWORDS == <<
    [ intent |-> "greeting", keywords |-> <<
        "hello", "hi", "hey", "namaste", "good morning", "good afternoon",
        "good evening", "howdy", "greetings", "<namaste>", "<namaskar>" >> ],
    [ intent |-> "fee_query", keywords |-> <<
        "fee", "fees", "payment", "amount", "cost", "tuition", "charges",
        "price", "pay", "money", "<shulk>", "<fees>", "<paise>" >> ],
    [ intent |-> "admission", keywords |-> <<
        "admission", "apply", "application", "eligibility", "seat", "enroll",
        "enrollment", "join", "entry", "<pravesh>", "<dakhila>" >> ],
    [ intent |-> "scholarship", keywords |-> <<
        "scholarship", "financial aid", "grant", "stipend", "merit",
        "concession", "discount", "waiver", "<chhatravritti>", "<scholarship>" >> ],
    [ intent |-> "timetable", keywords |-> <<
        "timetable", "schedule", "class timing", "lecture", "period",
        "timing", "when", "time", "<samay>", "<samay sarani>" >> ],
    [ intent |-> "exam", keywords |-> <<
        "exam", "examination", "test", "marks", "result", "grade",
        "score", "passing", "fail", "<pariksha>", "<result>" >> ],
    [ intent |-> "document", keywords |-> <<
        "document", "certificate", "transcript", "bonafide", "letter",
        "attestation", "verification", "<dastavez>", "<pramanpatra>" >> ],
    [ intent |-> "contact", keywords |-> <<
        "contact", "phone", "email", "address", "office", "location",
        "where", "reach", "<sampark>", "<pata>" >> ],
    [ intent |-> "hostel", keywords |-> <<
        "hostel", "accommodation", "room", "mess", "stay", "living",
        "dormitory", "<hostel>", "<chhatravas>" >> ],
    [ intent |-> "library", keywords |-> <<
        "library", "book", "borrow", "return", "reading", "<pustakalay>",
        "<kitab>" >> ],
    [ intent |-> "goodbye", keywords |-> <<
        "bye", "goodbye", "see you", "thank you", "thanks", "<dhanyavad>",
        "<alvida>", "good bye" >> ] >>

\* SUGGESTED_QUESTIONS[category]
SUGGESTED_QUESTIONS(category) ==
    CASE category = "admission" ->
           << "What are the eligibility criteria?",
              "What documents are required?",
              "What is the application deadline?" >>
      [] category = "fees" ->
           << "What is the semester fee?",
              "What payment methods are accepted?",
              "Is there any late fee penalty?" >>
      [] category = "scholarship" ->
           << "Who is eligible for scholarship?",
              "How to apply for scholarship?",
              "What is the scholarship amount?" >>
      [] category = "exam" ->
           << "When are the exams scheduled?",
              "What is the passing criteria?",
              "How can I check my results?" >>
      [] OTHER ->
           << "What are the admission requirements?",
              "What is the fee structure?",
              "Are there any scholarships available?" >>

\* --------------------------------------------------- IntentDetector (pure)

\* every intent given the default priority
intent_priority_Flat(intent) == 2

\* self.intent_priority.get(intent, 2)
intent_priority(intent) == IF intent \in {"greeting", "goodbye"} THEN 1 ELSE 2

\* the keywords of an intent that occur in the lower-cased text, in order
matched_keywords(text_lower, keywords) ==
    SelectSeq(keywords, LAMBDA keyword : Contains(text_lower, lower(keyword)))

\* twice the score len(matches) * (1 / priority): an integer
score2(text_lower, i) ==
    Len(matched_keywords(text_lower, INTENT_KEYWORDS[i].keywords))
        * (2 \div intent_priority(INTENT_KEYWORDS[i].intent))

\* mutant: among equal scores the last intent of the table wins
best_intent_LastGreatest(intent_scores, scored) ==
    CHOOSE i \in scored :
        /\ \A j \in scored : intent_scores[j] <= intent_scores[i]
        /\ \A j \in scored : j > i => intent_scores[j] < intent_scores[i]

\* max(intent_scores, key=intent_scores.get): the first greatest in the
\* insertion order of intent_scores, which is that of INTENT_KEYWORDS
best_intent(intent_scores, scored) ==
    CHOOSE i \in scored :
        /\ \A j \in scored : intent_scores[j] <= intent_scores[i]
        /\ \A j \in scored : j < i => intent_scores[j] < intent_scores[i]

\* detect_intent past its empty-text check (lines 57-96); the confidence is
\* the fraction num / den
detect_intent_scored(text) ==
    LET text_lower == lower(text)
        intent_scores == [i \in DOMAIN INTENT_KEYWORDS |-> score2(text_lower, i)]
        scored == {i \in DOMAIN INTENT_KEYWORDS : intent_scores[i] > 0}
    IN  IF scored = {}
        THEN [ intent |-> "general", confidence |-> [num |-> 1, den |-> 2],
               matched_keywords |-> << >> ]
        ELSE
        LET best == best_intent(intent_scores, scored)
            max_score2 == intent_scores[best]
            max_keywords == Len(INTENT_KEYWORDS[best].keywords)
        IN  [ intent |-> INTENT_KEYWORDS[best].intent,
              confidence |-> IF max_score2 >= 2 * max_keywords
                             THEN [num |-> 1, den |-> 1]
                             ELSE [num |-> max_score2, den |-> 2 * max_keywords],
              matched_keywords |->
                  matched_keywords(text_lower, INTENT_KEYWORDS[best].keywords) ]

\* detect_intent without its "if not text" early return
detect_intent_NoEmptyCheck(text) == detect_intent_scored(text)

\* IntentDetector.detect_intent
detect_intent(text) ==
    IF text = ""
    THEN [ intent |-> "general", confidence |-> [num |-> 0, den |-> 1],
           matched_keywords |-> << >> ]
    ELSE detect_intent_scored(text)

\* the departments list of extract_entities
departments == <<
    "computer science", "cs", "cse", "it", "information technology",
    "electronics", "ece", "eee", "mechanical", "civil", "chemical",
    "btech", "mtech", "mba", "bba", "bca", "mca", "bsc", "msc" >>

\* IntentDetector.extract_entities on a text without digits and without "@":
\* the year, amount, semester, academic-year, email and phone patterns all
\* need a digit or "@", so only the department can be found
extract_entities(text) ==
    LET text_lower == lower(text)
        found == {i \in DOMAIN departments : Contains(text_lower, departments[i])}
    IN  IF found = {} THEN {}
        ELSE LET first == CHOOSE i \in found : \A j \in found : i <= j
             IN  { << "department", upper(departments[first]) >> }

\* IntentDetector.get_suggested_questions
get_suggested_questions(intent) ==
    CASE intent = "fee_query"   -> SUGGESTED_QUESTIONS("fees")
      [] intent = "admission"   -> SUGGESTED_QUESTIONS("admission")
      [] intent = "scholarship" -> SUGGESTED_QUESTIONS("scholarship")
      [] intent = "exam"        -> SUGGESTED_QUESTIONS("exam")
      [] intent = "goodbye"     -> << >>
      [] OTHER                  -> SUGGESTED_QUESTIONS("general")

\* human_required_keywords of needs_human_fallback
human_required_keywords == <<
    "speak to someone", "talk to human", "real person",
    "manager", "supervisor", "complaint", "urgent",
    "emergency", "help me please", "not working" >>

\* mutant: the text is searched as typed, not lower-cased
needs_human_fallback_CaseSensitive(text, confidence) ==
    LET text_lower == text
    IN  \/ \E i \in DOMAIN human_required_keywords :
              Contains(text_lower, human_required_keywords[i])
        \/ confidence < 30

\* IntentDetector.needs_human_fallback
needs_human_fallback(text, confidence) ==
    LET text_lower == lower(text)
    IN  \/ \E i \in DOMAIN human_required_keywords :
              Contains(text_lower, human_required_keywords[i])
        \/ confidence < 30

\* ------------------------------------------------ TranslationService (pure)
\* The outcome of a call that reaches an external service is an input of
\* the model: ok says whether the translator answered.

\* what GoogleTranslator(source, target).translate(text) returns: English
\* text stays as it is on the way to English, the Hindi question of the
\* model is rendered in English, and text on the way out of English is
\* rendered in the target language (shown by a tag)
Rendering(text, target_lang) ==
    IF target_lang = "en"
    THEN IF text = "shulk kya hai" THEN "what is the fee" ELSE text
    ELSE "[" \o target_lang \o "] " \o text

\* TranslationService.translate: result["translated_text"]
translate(text, source_lang, target_lang, ok) ==
    IF source_lang = target_lang THEN text
    ELSE IF ok THEN Rendering(text, target_lang)
    ELSE text

\* TranslationService.translate_to_english: the text returned
translate_to_english(text, source_lang, ok) ==
    IF source_lang = "en" THEN text ELSE translate(text, source_lang, "en", ok)

\* TranslationService.translate_from_english
translate_from_english(text, target_lang, ok) ==
    IF target_lang = "en" THEN text ELSE translate(text, "en", target_lang, ok)

\* len(text.replace(" ", ""))
RECURSIVE CountNonSpace(_)
CountNonSpace(s) ==
    IF Len(s) = 0 THEN 0
    ELSE (IF CharAt(s, 1) = " " THEN 0 ELSE 1) + CountNonSpace(SubSeq(s, 2, Len(s)))

\* TranslationService._heuristic_detect on an ASCII text: no script counts,
\* ascii_count is the whole length, and the confidence ascii_count /
\* total_chars (at least 1.0) is rounded down to hundredths
heuristic_detect(text) ==
    LET total_chars == CountNonSpace(text)
    IN  IF total_chars = 0
        THEN [success |-> TRUE, language |-> "en", confidence |-> 50]
        ELSE [success |-> TRUE, language |-> "en",
              confidence |-> (100 * Len(text)) \div total_chars]

\* the probabilities langdetect reports in the model: at and above 0.7
DetectorConfidences == {70, 71}

\* TranslationService.detect_language: the results it can return for a text
\* without surrounding blanks: too short, a langdetect answer mapped to a
\* supported language, or the heuristic when langdetect fails
detect_language(text) ==
    IF Len(text) < 3
    THEN { [success |-> FALSE, language |-> "en", confidence |-> 0] }
    ELSE { [success |-> TRUE, language |-> l, confidence |-> c] :
              l \in ModelLanguages, c \in DetectorConfidences }
         \cup { heuristic_detect(text) }

\* ------------------------------------------- FAQ, retrieval and LLM outcomes

FaqAnswer == "The semester fee is payable online."
FaqScores == {70, 71}

\* intent_to_category.get(intent) of _search_faqs
intent_to_category(intent) ==
    CASE intent = "fee_query"   -> Some("fees")
      [] intent = "admission"   -> Some("admission")
      [] intent = "scholarship" -> Some("scholarship")
      [] intent = "exam"        -> Some("exam")
      [] intent = "timetable"   -> Some("timetable")
      [] intent = "document"    -> Some("documents")
      [] intent = "contact"     -> Some("contact")
      [] intent = "hostel"      -> Some("hostel")
      [] OTHER                  -> NoneV

\* ChatbotService._search_faqs: None (no match, or the search raised), or
\* the best match with its score as confidence
search_faqs(query, intent) ==
    { NoneV } \cup
    { Some([ answer |-> FaqAnswer, category |-> intent_to_category(intent),
             confidence |-> score ]) : score \in FaqScores }

RagAnswer == "Fees are listed in the fee rules."
RagSources == << "rules.pdf" >>
RagConfidences == {40, 41}

\* RAGService.generate_answer: it raises when initialize() raises (the call
\* in search_documents is outside its try); a search that raises is caught
\* in search_documents and leaves no document, as does a search that finds
\* none; its LLM call fails or returns an empty text; or it returns an
\* answer with the average relevance as confidence.  failure names the
\* retrieval failure met, if any.
generate_answer ==
    { [ failure |-> "initialize", raised |-> TRUE, answer |-> NoneV,
        sources |-> << >>, confidence |-> 0 ],
      [ failure |-> "search", raised |-> FALSE, answer |-> NoneV,
        sources |-> << >>, confidence |-> 0 ],
      [ failure |-> "none", raised |-> FALSE, answer |-> NoneV,
        sources |-> << >>, confidence |-> 0 ],
      [ failure |-> "none", raised |-> FALSE, answer |-> Some(""),
        sources |-> RagSources, confidence |-> 41 ] }
    \cup
    { [ failure |-> "none", raised |-> FALSE, answer |-> Some(RagAnswer),
        sources |-> RagSources, confidence |-> c ] : c \in RagConfidences }

LlmAnswer == "Please contact the accounts office."

\* OllamaService.generate_response: a text (possibly empty) or a failure
generate_response ==
    { [ success |-> TRUE, response |-> Some(LlmAnswer) ],
      [ success |-> TRUE, response |-> Some("") ],
      [ success |-> FALSE, response |-> NoneV ] }

\* --------------------------------------- process_message: its pure pieces

\* detected_lang after "if detection["success"] and confidence > 0.7"
resolve_language(declared, detection) ==
    IF detection.success /\ detection.confidence > 70
    THEN detection.language ELSE declared

\* mutant: only greeting is answered from the canned strings
is_canned_GreetingOnly(intent) == intent = "greeting"

\* the intents of step 5, answered without FAQ, retrieval or LLM
is_canned(intent) == intent \in {"greeting", "goodbye"}

\* step 5: response_text, confidence, sources of a canned answer
canned_answer(intent, detected_lang) ==
    [ response_text |-> IF intent = "greeting"
                        THEN LANGUAGES[detected_lang].greeting
                        ELSE goodbye_messages[detected_lang],
      confidence |-> 100,
      sources |-> NoneV ]

\* mutant: a top score of exactly 0.7 is accepted
faq_usable_AtThreshold(faq_result) ==
    ~IsNone(faq_result) /\ faq_result[1].confidence >= 70

\* step 6: faq_result and faq_result.get("confidence", 0) > 0.7
faq_usable(faq_result) ==
    ~IsNone(faq_result) /\ faq_result[1].confidence > 70

faq_answer(faq_result) ==
    [ response_text |-> faq_result[1].answer,
      confidence |-> faq_result[1].confidence,
      sources |-> Some(<< "FAQ Database" >>) ]

\* mutant: a retrieval confidence of exactly 0.4 is accepted
rag_usable_AtThreshold(rag_result) ==
    /\ ~IsNone(rag_result.answer)
    /\ rag_result.answer[1] # ""
    /\ rag_result.confidence >= 40

\* step 7: rag_result.get("answer") and rag_result.get("confidence", 0) > 0.4
rag_usable(rag_result) ==
    /\ ~IsNone(rag_result.answer)
    /\ rag_result.answer[1] # ""
    /\ rag_result.confidence > 40

rag_answer(rag_result) ==
    [ response_text |-> rag_result.answer[1],
      confidence |-> rag_result.confidence,
      sources |-> Some(rag_result.sources) ]

\* mutant: the canned fallback is given the confidence of an LLM answer
llm_answer_FallbackAt60(llm_result, detected_lang) ==
    IF llm_result.success
    THEN [ response_text |-> llm_result.response[1], confidence |-> 60,
           sources |-> NoneV ]
    ELSE [ response_text |-> LANGUAGES[detected_lang].fallback,
           confidence |-> 60, sources |-> NoneV ]

\* step 8: the answer taken from llm_result
llm_answer(llm_result, detected_lang) ==
    IF llm_result.success
    THEN [ response_text |-> llm_result.response[1], confidence |-> 60,
           sources |-> NoneV ]
    ELSE [ response_text |-> LANGUAGES[detected_lang].fallback,
           confidence |-> 0, sources |-> NoneV ]

\* the validation ChatResponse(...) performs on its fields
valid_chat_response(r) ==
    /\ r.confidence_score >= 0
    /\ r.confidence_score <= 100
    /\ r.language \in LanguageEnum

\* mutant: the error response carries no session id of the call
error_response_NoSession(request, session_id) ==
    [ response |-> IF request.language \in DOMAIN LANGUAGES
                   THEN LANGUAGES[request.language].error
                   ELSE LANGUAGES["en"].error,
      language |-> request.language,
      session_id |-> 0,
      confidence_score |-> 0,
      sources |-> NoneV,
      suggested_questions |-> NoneV,
      fallback_required |-> TRUE,
      intent |-> "error" ]

\* the ChatResponse of the except branch
error_response(request, session_id) ==
    [ response |-> IF request.language \in DOMAIN LANGUAGES
                   THEN LANGUAGES[request.language].error
                   ELSE LANGUAGES["en"].error,
      language |-> request.language,
      session_id |-> session_id,
      confidence_score |-> 0,
      sources |-> NoneV,
      suggested_questions |-> NoneV,
      fallback_required |-> TRUE,
      intent |-> "error" ]

\* mutant: no except branch, the exception leaves process_message
on_exception_Propagate(request, session_id) ==
    [ pc |-> "raised", resp |-> NoneV ]

\* "except Exception": the call ends with the error response
on_exception(request, session_id) ==
    [ pc |-> "done", resp |-> Some(error_response(request, session_id)) ]

\* ------------------------------------------------------- FAQService (pure)

WordChars == LowerCase \o "0123456789_"

\* re.sub(r'[^\w\s]', '', text) on a lowercased text
RECURSIVE strip_special(_)
strip_special(s) ==
    IF Len(s) = 0 THEN ""
    ELSE LET c == CharAt(s, 1)
         IN  (IF c = " " \/ \E i \in 1 .. Len(WordChars) : CharAt(WordChars, i) = c
              THEN c ELSE "") \o strip_special(SubSeq(s, 2, Len(s)))

\* str.split(): the maximal runs without blanks, word being the run so far
RECURSIVE split_from(_, _)
split_from(s, word) ==
    IF Len(s) = 0 THEN (IF word = "" THEN << >> ELSE << word >>)
    ELSE LET c == CharAt(s, 1)
             rest == SubSeq(s, 2, Len(s))
         IN  IF c = " "
             THEN (IF word = "" THEN << >> ELSE << word >>) \o split_from(rest, "")
             ELSE split_from(rest, word \o c)

split(s) == split_from(s, "")

\* stop_words of extract_keywords
stop_words ==
    {"the", "a", "an", "is", "are", "was", "were", "be", "been",
     "being", "have", "has", "had", "do", "does", "did", "will",
     "would", "could", "should", "may", "might", "can", "to", "of",
     "in", "for", "on", "with", "at", "by", "from", "as", "into",
     "about", "like", "through", "after", "over", "between", "out",
     "against", "during", "without", "before", "under", "around",
     "among", "and", "or", "but", "if", "then", "else", "when",
     "up", "down", "that", "this", "these", "those", "what", "which",
     "who", "whom", "whose", "where", "why", "how", "all", "each",
     "every", "both", "few", "more", "most", "other", "some", "such",
     "no", "nor", "not", "only", "own", "same", "so", "than", "too",
     "very", "just", "also", "now", "here", "there", "my", "your",
     "his", "her", "its", "our", "their", "me", "you", "him", "us",
     "them", "i", "we", "he", "she", "it", "they"}

\* min_length of extract_keywords
min_length == 3

\* the first occurrences of a list, in order
RECURSIVE unique_keywords(_)
unique_keywords(ks) ==
    IF ks = << >> THEN << >>
    ELSE LET front == SubSeq(ks, 1, Len(ks) - 1)
             word == ks[Len(ks)]
         IN  IF \E i \in DOMAIN front : front[i] = word
             THEN unique_keywords(front)
             ELSE Append(unique_keywords(front), word)

\* extract_keywords(text)
extract_keywords(text) ==
    LET ws == split(strip_special(lower(text)))
        Keep(word) == Len(word) >= min_length /\ word \notin stop_words
    IN  unique_keywords(SelectSeq(ws, Keep))

\* cursor of find({"language": language}): the documents of one language
find_language(store, language) ==
    LET Of(doc) == doc.language = language IN SelectSeq(store, Of)

\* _load_faqs_from_file(language): no faqs_<language>.json and no
\* faqs_en.json is installed beside the service
load_faqs_from_file(language) == << >>

\* what _get_faqs returns for a list read from the database
loaded_faqs(faqs, language) ==
    IF faqs # << >> THEN faqs ELSE load_faqs_from_file(language)

\* set(k.lower() for k in faq["keywords"]) | set(extract_keywords(question.lower()))
faq_all_keywords(faq) ==
    {lower(faq.keywords[i]) : i \in DOMAIN faq.keywords}
      \cup LET qs == extract_keywords(lower(faq.question))
           IN  {qs[i] : i \in DOMAIN qs}

\* min(len(matches) / max(len(query_keywords), 1) + priority * 0.1, 1.0), as a
\* fraction over ten times the number of query keywords
final_score(n_matches, n_query, priority) ==
    LET q == Max(n_query, 1)
    IN  [num |-> Min(10 * n_matches + priority * q, 10 * q), den |-> 10 * q]

\* the loop of search_faqs over faqs: the scored entries, in candidate order
RECURSIVE scored_faqs(_, _, _)
scored_faqs(faqs, query_keywords, category) ==
    IF faqs = << >> THEN << >>
    ELSE LET faq == faqs[Len(faqs)]
             before == scored_faqs(SubSeq(faqs, 1, Len(faqs) - 1),
                                   query_keywords, category)
             matches == query_keywords \cap faq_all_keywords(faq)
         IN  IF ~IsNone(category) /\ category[1] # ""
                /\ lower(faq.category) # lower(category[1])
             THEN before
             ELSE IF matches = {} THEN before
             ELSE Append(before,
                         [ question |-> faq.question, answer |-> faq.answer,
                           category |-> faq.category,
                           score |-> final_score(Cardinality(matches),
                                                 Cardinality(query_keywords),
                                                 faq.priority),
                           matched_keywords |-> matches ])

\* a.score < b.score for scores over one denominator
ScoreLess(a, b) == a.score.num < b.score.num

\* list.sort(key=score, reverse=True) is stable: an entry goes behind every
\* entry whose score is not smaller
sort_insert_Front(sorted, x) ==
    LET k == Cardinality({i \in DOMAIN sorted : ScoreLess(x, sorted[i])})
    IN  SubSeq(sorted, 1, k) \o << x >> \o SubSeq(sorted, k + 1, Len(sorted))

sort_insert(sorted, x) ==
    LET k == Cardinality({i \in DOMAIN sorted : ~ScoreLess(sorted[i], x)})
    IN  SubSeq(sorted, 1, k) \o << x >> \o SubSeq(sorted, k + 1, Len(sorted))

RECURSIVE sort_by_score(_)
sort_by_score(entries) ==
    IF entries = << >> THEN << >>
    ELSE sort_insert(sort_by_score(SubSeq(entries, 1, Len(entries) - 1)),
                     entries[Len(entries)])

\* FAQService.search_faqs once _get_faqs has returned faqs
FAQService_search_faqs(faqs, query, category, limit) ==
    IF faqs = << >> THEN [matches |-> << >>, total |-> 0]
    ELSE LET ks == extract_keywords(lower(query))
             query_keywords == {ks[i] : i \in DOMAIN ks}
             sorted == sort_by_score(scored_faqs(faqs, query_keywords, category))
         IN  [matches |-> SubSeq(sorted, 1, Min(limit, Len(sorted))),
              total |-> Len(sorted)]

\* the FAQCreate payloads offered to create_faq, and the seeded documents
FaqPayloads ==
    << [ question |-> "What is the fee?",
         answer |-> "The semester fee is payable online.",
         category |-> "fees", language |-> "en",
         keywords |-> << "Fee", "fees" >>, priority |-> 0 ],
       [ question |-> "Pay the hostel fee?",
         answer |-> "Hostel fees are paid at the office.",
         category |-> "Hostel", language |-> "en",
         keywords |-> << >>, priority |-> 1 ],
       [ question |-> "Is the fee late?",
         answer |-> "A late fee applies after the due date.",
         category |-> "fees", language |-> "en",
         keywords |-> << >>, priority |-> 0 ],
       [ question |-> "shulk kya hai?",
         answer |-> "shulk online jama hota hai.",
         category |-> "fees", language |-> "hi",
         keywords |-> << "fee" >>, priority |-> 0 ] >>

\* faq_doc of create_faq: keywords are extracted from the question when the
\* payload has none
faq_doc(id) ==
    LET faq == FaqPayloads[id]
    IN  [ id |-> id, question |-> faq.question, answer |-> faq.answer,
          category |-> faq.category, language |-> faq.language,
          keywords |-> IF faq.keywords = << >>
                       THEN extract_keywords(faq.question) ELSE faq.keywords,
          priority |-> faq.priority ]

\* the collection as seeded
SeededFaqs == << faq_doc(1), faq_doc(2), faq_doc(4) >>

\* the documents the admin calls are made on
AdminFaqIds == {3}
\* the priorities update_faq sets
UpdatedPriorities == {4}

\* the frame of a call that is not running
IdleCall == [pc |-> "idle"]

\* ------------------------------------------------------- RateLimiter (pure)

\* RateLimiter(requests_per_minute=...): the limit of the limiter under test.
RequestsPerMinute == 2
\* time.time() stops advancing at MaxClock.
MaxClock == 6
\* the 60 seconds of window_start = current_time - 60, in ticks of 20 seconds
RateWindow == 3

\* request.client.host, or "unknown"
Clients == {"10.0.0.1", "unknown"}

\* [req_time for req_time in reqs if req_time > window_start]
recent_requests(reqs, current_time) ==
    LET Recent(req_time) == req_time > current_time - RateWindow
    IN  SelectSeq(reqs, Recent)

\* RateLimiter.is_allowed(client_id) at current_time: the requests it leaves
\* and what it returns
is_allowed_OneMore(reqs, client_id, current_time) ==
    LET cleaned == recent_requests(reqs[client_id], current_time)
    IN  IF Len(cleaned) > RequestsPerMinute
        THEN [requests |-> [reqs EXCEPT ![client_id] = cleaned], result |-> FALSE]
        ELSE [requests |-> [reqs EXCEPT ![client_id] = Append(cleaned, current_time)],
              result |-> TRUE]

is_allowed(reqs, client_id, current_time) ==
    LET cleaned == recent_requests(reqs[client_id], current_time)
    IN  IF Len(cleaned) >= RequestsPerMinute
        THEN [requests |-> [reqs EXCEPT ![client_id] = cleaned], result |-> FALSE]
        ELSE [requests |-> [reqs EXCEPT ![client_id] = Append(cleaned, current_time)],
              result |-> TRUE]

\* RateLimiter.get_remaining(client_id) at current_time
get_remaining(reqs, client_id, current_time) ==
    Max(0, RequestsPerMinute - Len(recent_requests(reqs[client_id], current_time)))

\* no is_allowed call made yet; granted holds, per client, the times of the
\* calls answered True that are less than a window old
NoCall ==
    [ client_id |-> NoneV, time |-> 0, allowed |-> FALSE, remaining |-> NoneV,
      granted |-> [c \in Clients |-> << >>] ]

\* ------------------------------------------------------------------- state

VARIABLES
    now,        \* datetime.utcnow(), in ticks
    cctx,       \* SpecCtx: one ConversationContext used on its own
    ctxMsgLog,  \* the latest MaxMessages + 1 messages appended to cctx
    ctxIntentLog, \* the latest MaxIntentHistory + 1 intents added to cctx
    sessions,   \* ContextManager.sessions, in OrderedDict order
    lastOp,     \* the last ContextManager call: name, id, result, ids removed
    createRun,  \* ids of the latest consecutive creations (at most MaxSessions + 1)
    accessOrder, \* Spec: the held ids, the latest get_or_create_session access last
    pm,         \* SpecChat: the frame of one process_message call
    conv,       \* its conversation object once the store has dropped it
    resp,       \* the ChatResponse it returned
    words,      \* SpecIntent: the words of the text handed to detect_intent
    intent_result, \* what the latest detect_intent call returned
    prompt,     \* SpecPrompt: the latest get_context_prompt call and its result
    faq_store,  \* SpecFaq: the documents of the FAQ collection, in insertion order
    cached_faqs, \* FAQService.cached_faqs: language -> list, as a set of pairs
    faq_call,   \* the frame of one search_faqs call
    search_result, \* the latest search_faqs call that returned, and its result
    faq_admin,  \* the frame of one create_faq / update_faq / delete_faq call
    requests,   \* SpecRate: RateLimiter.requests, client id -> recorded times
    clock,      \* time.time(), in seconds
    rate_last   \* the latest is_allowed call, its result and the calls allowed so far

ctxVars == << cctx, ctxMsgLog, ctxIntentLog >>
storeVars == << sessions, lastOp, createRun, accessOrder >>
chatVars == << pm, conv, resp >>
fnVars == << words, intent_result, prompt >>
faqVars == << faq_store, cached_faqs, faq_call, search_result, faq_admin >>
rateVars == << requests, clock, rate_last >>
svcVars == << faqVars, rateVars >>
vars == << now, cctx, ctxMsgLog, ctxIntentLog, sessions, lastOp, createRun, accessOrder,
           pm, conv, resp, words, intent_result, prompt,
           faq_store, cached_faqs, faq_call, search_result, faq_admin,
           requests, clock, rate_last >>

\* ------------------------------------------------------------ input sets

\* session ids offered to the store: one more than the ceiling
SessionIds == 1 .. (MaxSessions + 1)

\* the id of the context used on its own
CtxSessionId == 1

CtxIntents == {"greeting", "fee_query"}
CtxEntities == { {}, {<<"department", "CSE">>} }
CtxSources == { Some(<<"rules.pdf">>) }

NoOp == [op |-> "none", sid |-> 0, result |-> FALSE, removed |-> {}]

\* the frame of process_message before a request has arrived; calls lists
\* the stage calls made so far among "faq", "rag", "prompt", "llm"
IdleFrame ==
    [ pc              |-> "idle",
      request         |-> [message |-> "", language |-> "en", session_id |-> NoneV],
      session_id      |-> 0,
      detection       |-> NoneV,
      detected_lang   |-> "en",
      english_message |-> "",
      intent          |-> "",
      faq_result      |-> NoneV,
      rag_result      |-> NoneV,
      context_prompt  |-> NoneV,
      llm_result      |-> NoneV,
      response_text   |-> "",
      confidence      |-> 0,
      sources         |-> NoneV,
      calls           |-> << >> ]

Init ==
    /\ now = 0
    /\ cctx = NewContext(CtxSessionId, "en", 0)
    /\ ctxMsgLog = << >>
    /\ ctxIntentLog = << >>
    /\ sessions = << >>
    /\ lastOp = NoOp
    /\ createRun = << >>
    /\ accessOrder = << >>
    /\ pm = IdleFrame
    /\ conv = NoneV
    /\ resp = NoneV
    /\ words = << >>
    /\ intent_result = NoneV
    /\ prompt = NoneV
    /\ faq_store = SeededFaqs
    /\ cached_faqs = {}
    /\ faq_call = IdleCall
    /\ search_result = NoneV
    /\ faq_admin = IdleCall
    /\ requests = [c \in Clients |-> << >>]
    /\ clock = 0
    /\ rate_last = NoCall

\* the clock advances
Tick ==
    /\ now < MaxTime
    /\ now' = now + 1

\* --------------------------------------- SpecCtx: one ConversationContext

CtxTick ==
    /\ Tick
    /\ UNCHANGED << fnVars, svcVars, ctxVars, storeVars, chatVars >>

\* the message add_message has just appended to c
Newest(c) == c.messages[Len(c.messages)]

CtxAddUserMessage ==
    /\ cctx' = add_user_message(cctx, "m1", NoneV, now)
    /\ ctxMsgLog' = LastN(Append(ctxMsgLog, Newest(cctx')), MaxMessages + 1)
    /\ UNCHANGED << fnVars, svcVars, now, ctxIntentLog, storeVars, chatVars >>

CtxAddAssistantMessage ==
    /\ \E src \in CtxSources :
          cctx' = add_assistant_message(cctx, "a1", Some("hi"), src, Some(60), now)
    /\ ctxMsgLog' = LastN(Append(ctxMsgLog, Newest(cctx')), MaxMessages + 1)
    /\ UNCHANGED << fnVars, svcVars, now, ctxIntentLog, storeVars, chatVars >>

CtxUpdateEntities ==
    /\ \E e \in CtxEntities : cctx' = update_entities(cctx, e, now)
    /\ UNCHANGED << fnVars, svcVars, now, ctxMsgLog, ctxIntentLog, storeVars, chatVars >>

CtxAddIntent ==
    /\ \E i \in CtxIntents :
          /\ cctx' = add_intent(cctx, i)
          /\ ctxIntentLog' = LastN(Append(ctxIntentLog, i), MaxIntentHistory + 1)
    /\ UNCHANGED << fnVars, svcVars, now, ctxMsgLog, storeVars, chatVars >>

NextCtx ==
    \/ CtxTick
    \/ CtxAddUserMessage
    \/ CtxAddAssistantMessage
    \/ CtxUpdateEntities
    \/ CtxAddIntent

SpecCtx == Init /\ [][NextCtx]_vars

\* ------------------------------------------------- Spec: the ContextManager
\* The callers of the store: get_or_create_session, get_session and
\* clear_session, and the two ways process_message touches a held context
\* (a message append, which refreshes updated_at, and add_intent).  A context
\* of this specification receives at most one message and one intent; longer
\* histories are the subject of SpecCtx.

\* the ids an operation removed from the store
\* the ids in order of their latest get_or_create_session call after one
\* more call for sid, and the ids of that order a store still holds
Accessed(order, sid) == Append(SelectSeq(order, LAMBDA id : id # sid), sid)
StillHeld(order, ss) == SelectSeq(order, LAMBDA id : Held(ss, id))

Removed(before, after) == SessionIdsOf(before) \ SessionIdsOf(after)

\* context_manager.get_or_create_session(sid, "en")
GetOrCreateSession(sid) ==
    /\ sessions' = get_or_create_session(sessions, sid, "en", now)
    /\ lastOp' = [op |-> IF Held(sessions, sid) THEN "hit" ELSE "create",
                  sid |-> sid, result |-> Held(sessions', sid),
                  removed |-> Removed(sessions, sessions')]
    /\ createRun' = IF Held(sessions, sid) THEN << >>
                    ELSE LastN(Append(createRun, sid), MaxSessions + 1)
    /\ accessOrder' = StillHeld(Accessed(accessOrder, sid), sessions')
    /\ UNCHANGED << fnVars, svcVars, now, ctxVars, chatVars >>

\* context_manager.get_session(sid): a read
GetSession(sid) ==
    /\ lastOp' = NoOp
    /\ UNCHANGED << fnVars, svcVars, now, ctxVars, sessions, createRun, accessOrder, chatVars >>

\* context_manager.clear_session(sid)
ClearSession(sid) ==
    /\ sessions' = clear_session(sessions, sid)
    /\ lastOp' = [op |-> "clear", sid |-> sid, result |-> Held(sessions, sid),
                  removed |-> Removed(sessions, sessions')]
    /\ createRun' = << >>
    /\ accessOrder' = StillHeld(accessOrder, sessions')
    /\ UNCHANGED << fnVars, svcVars, now, ctxVars, chatVars >>

\* add_user_message on the context held under sid
SessionAddUserMessage(sid) ==
    /\ Held(sessions, sid)
    /\ sessions[IndexOf(sessions, sid)].messages = << >>
    /\ sessions' = [sessions EXCEPT ![IndexOf(sessions, sid)] =
                        add_user_message(@, "m1", NoneV, now)]
    /\ lastOp' = NoOp
    /\ createRun' = << >>
    /\ UNCHANGED << fnVars, svcVars, now, ctxVars, chatVars, accessOrder >>

\* the sessions whose intent history is written in Spec
IntentSessionIds == {1}

\* add_intent on the context held under sid
SessionAddIntent(sid) ==
    /\ Held(sessions, sid)
    /\ sessions[IndexOf(sessions, sid)].intent_history = << >>
    /\ sessions' = [sessions EXCEPT ![IndexOf(sessions, sid)] =
                        add_intent(@, "general")]
    /\ lastOp' = NoOp
    /\ createRun' = << >>
    /\ UNCHANGED << fnVars, svcVars, now, ctxVars, chatVars, accessOrder >>

StoreTick ==
    /\ Tick
    /\ lastOp' = NoOp
    /\ UNCHANGED << fnVars, svcVars, ctxVars, sessions, createRun, accessOrder, chatVars >>

Next ==
    \/ StoreTick
    \/ \E sid \in SessionIds : GetOrCreateSession(sid)
    \/ \E sid \in SessionIds : GetSession(sid)
    \/ \E sid \in SessionIds : ClearSession(sid)
    \/ \E sid \in SessionIds : SessionAddUserMessage(sid)
    \/ \E sid \in IntentSessionIds : SessionAddIntent(sid)

Spec == Init /\ [][Next]_vars

\* ------------------------------------- SpecChat: one process_message call
\* One request is followed from its arrival to the response.  Every action
\* PM... is the code from one await to the next; the outcome of the awaited
\* collaborator is an input.  Between two awaits other requests may use the
\* store.  The clock stands still during the call.

\* the id a client sends, when it sends one
ClientSessionId == 1

ChatMessages ==
    { "hello",
      "bye",
      "what is the cse fee",
      "Hello, I want to Speak To Someone",
      "urgent fee",
      "shulk kya hai" }

RequestSessionIds == { NoneV, Some(ClientSessionId) }

\* generate_session_id(): an id no session of the store has
generate_session_id(ss) ==
    CHOOSE i \in SessionIds :
        /\ ~Held(ss, i)
        /\ \A j \in SessionIds : ~Held(ss, j) => i <= j

Running == pm.pc \notin {"idle", "done", "raised"}

\* the object bound to the local name conversation: the store's entry, or
\* the object the call still holds after the store dropped it
Conversation ==
    IF IsNone(conv) THEN sessions[IndexOf(sessions, pm.session_id)] ELSE conv[1]

\* a mutation of that object, which leaves it in the state c
SetConversation(c) ==
    IF IsNone(conv)
    THEN /\ sessions' = [sessions EXCEPT ![IndexOf(sessions, pm.session_id)] = c]
         /\ conv' = conv
    ELSE /\ conv' = Some(c)
         /\ sessions' = sessions

\* the call is suspended in an await that yields to other requests: the
\* translation calls return at once for English
AtAwait ==
    \/ pm.pc \in {"detect", "faq", "rag", "llm"}
    \/ pm.pc = "to_english" /\ pm.detected_lang # "en"
    \/ pm.pc = "from_english" /\ pm.detected_lang # "en" /\ pm.response_text # ""
    \/ pm.pc = "suggest" /\ pm.detected_lang # "en" /\ pm.intent # "goodbye"

\* another request may use the store under sid while the call is suspended;
\* an id made by generate_session_id is not known to anyone else before the
\* response is returned
MayInterleave(sid) ==
    /\ AtAwait
    /\ ~(Running /\ IsNone(pm.request.session_id) /\ sid = pm.session_id)

\* conv after another request changed the store to after: when the store
\* has dropped the object of the running call, the call keeps it
KeptObject(after) ==
    IF Running /\ IsNone(conv) /\ ~Held(after, pm.session_id)
    THEN Some(sessions[IndexOf(sessions, pm.session_id)])
    ELSE conv

\* process_message, lines 54-71: session id, get_or_create_session, the
\* declared language, up to the await of detect_language
PMStart(message, language, sid) ==
    /\ pm.pc = "idle"
    /\ LET session_id == IF IsNone(sid) THEN generate_session_id(sessions)
                         ELSE sid[1]
       IN  /\ sessions' = get_or_create_session(sessions, session_id, language, now)
           /\ conv' = IF Held(sessions', session_id) THEN NoneV
                      ELSE Some(returned_context(sessions, session_id, language, now))
           /\ pm' = [IdleFrame EXCEPT
                        !.pc = "detect",
                        !.request = [message |-> message, language |-> language,
                                     session_id |-> sid],
                        !.session_id = session_id,
                        !.detected_lang = language]
    /\ UNCHANGED << fnVars, svcVars, now, ctxVars, lastOp, createRun, accessOrder, resp >>

\* lines 71-79: detect_language returns, the language is resolved
PMDetect ==
    /\ pm.pc = "detect"
    /\ \E detection \in detect_language(pm.request.message) :
          pm' = [pm EXCEPT
                    !.pc = "to_english",
                    !.detection = Some(detection),
                    !.detected_lang = resolve_language(pm.request.language, detection)]
    /\ UNCHANGED << fnVars, svcVars, now, ctxVars, storeVars, conv, resp >>

\* lines 76-119: translate_to_english returns; intent, entities, the user
\* message; the canned answer, or the call of _search_faqs
PMToEnglish ==
    /\ pm.pc = "to_english"
    /\ \E ok \in BOOLEAN :
          LET english_message ==
                  translate_to_english(pm.request.message, pm.detected_lang, ok)
              intent == detect_intent(english_message).intent
              c1 == update_entities(Conversation, extract_entities(english_message), now)
              c2 == add_intent(c1, intent)
              c3 == add_user_message(c2, pm.request.message, Some(pm.detected_lang), now)
              a == canned_answer(intent, pm.detected_lang)
          IN  /\ SetConversation(c3)
              /\ pm' = IF is_canned(intent)
                       THEN [pm EXCEPT !.pc = "from_english",
                                       !.english_message = english_message,
                                       !.intent = intent,
                                       !.response_text = a.response_text,
                                       !.confidence = a.confidence,
                                       !.sources = a.sources]
                       ELSE [pm EXCEPT !.pc = "faq",
                                       !.english_message = english_message,
                                       !.intent = intent,
                                       !.calls = << "faq" >>]
    /\ UNCHANGED << fnVars, svcVars, now, ctxVars, lastOp, createRun, accessOrder, resp >>

\* lines 119-132: _search_faqs returns; its answer, or the call of
\* rag.generate_answer
PMFaq ==
    /\ pm.pc = "faq"
    /\ \E faq_result \in search_faqs(pm.english_message, pm.intent) :
          pm' = IF faq_usable(faq_result)
                THEN LET a == faq_answer(faq_result)
                     IN  [pm EXCEPT !.pc = "from_english",
                                    !.faq_result = faq_result,
                                    !.response_text = a.response_text,
                                    !.confidence = a.confidence,
                                    !.sources = a.sources]
                ELSE [pm EXCEPT !.pc = "rag",
                                !.faq_result = faq_result,
                                !.calls = Append(@, "rag")]
    /\ UNCHANGED << fnVars, svcVars, now, ctxVars, storeVars, conv, resp >>

\* lines 129-149 and 210-227: generate_answer raises and the except branch
\* answers; or it returns: its answer, or get_context_prompt and the call of
\* llm.generate_response
PMRag ==
    /\ pm.pc = "rag"
    /\ \E rag_result \in generate_answer :
          IF rag_result.raised
          THEN LET e == on_exception(pm.request, pm.session_id)
               IN  /\ pm' = [pm EXCEPT !.pc = e.pc, !.rag_result = Some(rag_result)]
                   /\ resp' = e.resp
          ELSE /\ pm' = IF rag_usable(rag_result)
                        THEN LET a == rag_answer(rag_result)
                             IN  [pm EXCEPT !.pc = "from_english",
                                            !.rag_result = Some(rag_result),
                                            !.response_text = a.response_text,
                                            !.confidence = a.confidence,
                                            !.sources = a.sources]
                        ELSE [pm EXCEPT !.pc = "llm",
                                        !.rag_result = Some(rag_result),
                                        !.context_prompt =
                                            Some(get_context_prompt(sessions,
                                                   pm.session_id, pm.english_message)),
                                        !.calls = @ \o << "prompt", "llm" >>]
               /\ resp' = resp
    /\ UNCHANGED << fnVars, svcVars, now, ctxVars, storeVars, conv >>

\* lines 146-166: generate_response returns
PMLlm ==
    /\ pm.pc = "llm"
    /\ \E llm_result \in generate_response :
          LET a == llm_answer(llm_result, pm.detected_lang)
          IN  pm' = [pm EXCEPT !.pc = "from_english",
                               !.llm_result = Some(llm_result),
                               !.response_text = a.response_text,
                               !.confidence = a.confidence,
                               !.sources = a.sources]
    /\ UNCHANGED << fnVars, svcVars, now, ctxVars, storeVars, conv, resp >>

\* lines 161-166: the answer is translated back
PMFromEnglish ==
    /\ pm.pc = "from_english"
    /\ \E ok \in BOOLEAN :
          pm' = [pm EXCEPT
                    !.pc = "suggest",
                    !.response_text =
                        IF pm.detected_lang # "en" /\ pm.response_text # ""
                        THEN translate_from_english(pm.response_text,
                                                    pm.detected_lang, ok)
                        ELSE pm.response_text]
    /\ UNCHANGED << fnVars, svcVars, now, ctxVars, storeVars, conv, resp >>

\* lines 168-208: the fallback decision, the suggested questions (their
\* translation calls succeed or fail together in the model), the assistant
\* message, and the ChatResponse, whose validation failure would end in the
\* except branch
PMSuggest ==
    /\ pm.pc = "suggest"
    /\ \E ok \in BOOLEAN :
          LET fallback_required ==
                  needs_human_fallback(pm.request.message, pm.confidence)
              questions == get_suggested_questions(pm.intent)
              suggested_questions ==
                  IF pm.detected_lang # "en" /\ questions # << >>
                  THEN [i \in 1 .. Min(3, Len(questions)) |->
                          translate_from_english(questions[i], pm.detected_lang, ok)]
                  ELSE questions
              c == add_assistant_message(Conversation, pm.response_text,
                       Some(pm.detected_lang), pm.sources, Some(pm.confidence), now)
              r == [ response            |-> pm.response_text,
                     language            |-> pm.detected_lang,
                     session_id          |-> pm.session_id,
                     confidence_score    |-> pm.confidence,
                     sources             |-> pm.sources,
                     suggested_questions |-> Some(suggested_questions),
                     fallback_required   |-> fallback_required,
                     intent              |-> pm.intent ]
              e == IF valid_chat_response(r)
                   THEN [pc |-> "done", resp |-> Some(r)]
                   ELSE on_exception(pm.request, pm.session_id)
          IN  /\ SetConversation(c)
              /\ pm' = [pm EXCEPT !.pc = e.pc]
              /\ resp' = e.resp
    /\ UNCHANGED << fnVars, svcVars, now, ctxVars, lastOp, createRun, accessOrder >>

\* another request calls get_or_create_session(sid, "en")
OtherGetOrCreateSession(sid) ==
    /\ MayInterleave(sid)
    /\ sessions' = get_or_create_session(sessions, sid, "en", now)
    /\ conv' = KeptObject(sessions')
    /\ UNCHANGED << fnVars, svcVars, now, ctxVars, lastOp, createRun, accessOrder, pm, resp >>

\* another request calls clear_session(sid)
OtherClearSession(sid) ==
    /\ MayInterleave(sid)
    /\ sessions' = clear_session(sessions, sid)
    /\ conv' = KeptObject(sessions')
    /\ UNCHANGED << fnVars, svcVars, now, ctxVars, lastOp, createRun, accessOrder, pm, resp >>

\* the steps of the call
PMStep ==
    \/ \E message \in ChatMessages, language \in ModelLanguages,
          sid \in RequestSessionIds : PMStart(message, language, sid)
    \/ PMDetect
    \/ PMToEnglish
    \/ PMFaq
    \/ PMRag
    \/ PMLlm
    \/ PMFromEnglish
    \/ PMSuggest

\* the call on a store no other request uses meanwhile
NextChat == PMStep

SpecChat == Init /\ [][NextChat]_vars

\* the messages of the call that other requests interleave with
ConcMessages == {"shulk kya hai"}
\* and the language its request names
ConcLanguages == {"en"}

\* the call with other requests using the store at its awaits
NextChatConc ==
    \/ \E message \in ConcMessages, language \in ConcLanguages,
          sid \in RequestSessionIds : PMStart(message, language, sid)
    \/ PMDetect
    \/ PMToEnglish
    \/ PMFaq
    \/ PMRag
    \/ PMLlm
    \/ PMFromEnglish
    \/ PMSuggest
    \/ \E sid \in SessionIds : OtherGetOrCreateSession(sid)
    \/ \E sid \in {ClientSessionId} : OtherClearSession(sid)

SpecChatConc == Init /\ [][NextChatConc]_vars

\* ------------------------------------- SpecIntent: detect_intent on texts
\* detect_intent is a pure function of its text.  The texts are the empty
\* string and up to MaxWords words joined by single spaces; every step hands
\* the text to detect_intent and keeps what it returned.

\* the most words of a text
MaxWords == 3

\* "Hello", "hey": greeting keywords (one in capitals); "this": a word that
\* holds the greeting keyword "hi" as a substring; "fee": a fee_query keyword;
\* "bye": a goodbye keyword; "campus": no keyword
IntentWords == {"Hello", "hey", "this", "fee", "bye", "campus"}

\* " ".join(ws)
RECURSIVE JoinWords(_)
JoinWords(ws) ==
    IF Len(ws) = 0 THEN ""
    ELSE IF Len(ws) = 1 THEN ws[1]
    ELSE ws[1] \o " " \o JoinWords(Tail(ws))

\* the text handed to the latest detect_intent call
IntentText == JoinWords(words)

\* detect_intent(text) on the text so far with one more word
DetectIntentAppended(w) ==
    /\ Len(words) < MaxWords
    /\ words' = Append(words, w)
    /\ intent_result' = Some(detect_intent(JoinWords(words')))
    /\ UNCHANGED << now, ctxVars, storeVars, chatVars, prompt, svcVars >>

\* detect_intent("")
DetectIntentEmpty ==
    /\ words' = << >>
    /\ intent_result' = Some(detect_intent(""))
    /\ UNCHANGED << now, ctxVars, storeVars, chatVars, prompt, svcVars >>

NextIntent ==
    \/ \E w \in IntentWords : DetectIntentAppended(w)
    \/ DetectIntentEmpty

SpecIntent == Init /\ [][NextIntent]_vars

\* ------------------------------- SpecPrompt: get_context_prompt on a store
\* The store with a conversation that grows past the three messages the
\* prompt shows.  The clock stands still; the conversation runs in session
\* PromptSessionId, a second session is created and cleared beside it.

\* max_messages of the contexts of this specification: more than HistoryLimit
PromptMaxMessages == 4

PromptSessionId == 1
PromptSessionIds == {1, 2}
PromptUserTexts == {"what is the fee", "and for cse"}
PromptAssistantTexts == {"The fee is 100."}
PromptQueries == {"when is the exam", "and the hostel"}

\* get_or_create_session, a created context taking PromptMaxMessages
prompt_get_or_create_session(ss, sid) ==
    LET after == get_or_create_session(ss, sid, "en", now)
    IN  [i \in DOMAIN after |->
            IF after[i].session_id = sid /\ ~Held(ss, sid)
            THEN [after[i] EXCEPT !.max_messages = PromptMaxMessages]
            ELSE after[i]]

\* the store with the context of session sid replaced by c
WithContext(ss, sid, c) ==
    [i \in DOMAIN ss |-> IF ss[i].session_id = sid THEN c ELSE ss[i]]

PromptGetOrCreateSession(sid) ==
    /\ sessions' = prompt_get_or_create_session(sessions, sid)
    /\ prompt' = NoneV
    /\ UNCHANGED << now, ctxVars, lastOp, createRun, accessOrder, chatVars, words, intent_result, svcVars >>

PromptClearSession(sid) ==
    /\ sessions' = clear_session(sessions, sid)
    /\ prompt' = NoneV
    /\ UNCHANGED << now, ctxVars, lastOp, createRun, accessOrder, chatVars, words, intent_result, svcVars >>

PromptAddUserMessage ==
    /\ Held(sessions, PromptSessionId)
    /\ \E content \in PromptUserTexts :
          sessions' = WithContext(sessions, PromptSessionId,
              add_user_message(sessions[IndexOf(sessions, PromptSessionId)],
                               content, Some("en"), now))
    /\ prompt' = NoneV
    /\ UNCHANGED << now, ctxVars, lastOp, createRun, accessOrder, chatVars, words, intent_result, svcVars >>

PromptAddAssistantMessage ==
    /\ Held(sessions, PromptSessionId)
    /\ \E content \in PromptAssistantTexts :
          sessions' = WithContext(sessions, PromptSessionId,
              add_assistant_message(sessions[IndexOf(sessions, PromptSessionId)],
                                    content, Some("en"), NoneV, Some(60), now))
    /\ prompt' = NoneV
    /\ UNCHANGED << now, ctxVars, lastOp, createRun, accessOrder, chatVars, words, intent_result, svcVars >>

\* get_context_prompt(session_id, current_query): the store is only read
GetContextPrompt(sid, current_query) ==
    /\ prompt' = Some([ session_id |-> sid, current_query |-> current_query,
                        result |-> get_context_prompt(sessions, sid, current_query) ])
    /\ UNCHANGED << now, ctxVars, storeVars, chatVars, words, intent_result, svcVars >>

NextPrompt ==
    \/ \E sid \in PromptSessionIds : PromptGetOrCreateSession(sid)
    \/ \E sid \in PromptSessionIds : PromptClearSession(sid)
    \/ PromptAddUserMessage
    \/ PromptAddAssistantMessage
    \/ \E sid \in PromptSessionIds, q \in PromptQueries : GetContextPrompt(sid, q)

SpecPrompt == Init /\ [][NextPrompt]_vars

\* ----------------------------------------- SpecFaq: the FAQ service calls

\* the queries, categories and limits handed to search_faqs
FaqQueries == {"Hostel fee?", "the lab"}
FaqCategories == {NoneV, Some("FEES")}
FaqLimits == {1, 5}
\* the languages searched
FaqLanguages == {"en"}

\* the cached list of a language; only read when the language is cached
cached_list(cache, language) ==
    (CHOOSE p \in cache : p[1] = language)[2]

\* what a search_faqs call leaves in search_result
SearchReturned(query, category, language, limit, faqs, hit) ==
    Some([ query |-> query, category |-> category, language |-> language,
           limit |-> limit, faqs |-> faqs, cache_hit |-> hit,
           result |-> FAQService_search_faqs(faqs, query, category, limit) ])

\* search_faqs up to the await of _get_faqs: with the language cached the
\* call runs to its return; otherwise find() is issued and the call waits
\* for cursor.to_list
SearchFaqsStart(query, category, language, limit) ==
    /\ faq_call.pc = "idle"
    /\ IF \E p \in cached_faqs : p[1] = language
       THEN /\ search_result' = SearchReturned(query, category, language, limit,
                                               cached_list(cached_faqs, language), TRUE)
            /\ UNCHANGED faq_call
       ELSE /\ faq_call' = [ pc |-> "to_list", query |-> query,
                             category |-> category, language |-> language,
                             limit |-> limit,
                             faqs |-> find_language(faq_store, language) ]
            /\ UNCHANGED search_result
    /\ UNCHANGED << faq_store, cached_faqs, faq_admin >>
    /\ UNCHANGED << now, ctxVars, storeVars, chatVars, fnVars, rateVars >>

\* _get_faqs after the await: the list read is cached under the language
\* and search_faqs scores it
SearchFaqsLoaded ==
    /\ faq_call.pc = "to_list"
    /\ LET faqs == loaded_faqs(faq_call.faqs, faq_call.language)
       IN  /\ cached_faqs' = DictUpdate(cached_faqs, {<< faq_call.language, faqs >>})
           /\ search_result' = SearchReturned(faq_call.query, faq_call.category,
                                              faq_call.language, faq_call.limit,
                                              faqs, FALSE)
    /\ faq_call' = IdleCall
    /\ UNCHANGED << faq_store, faq_admin >>
    /\ UNCHANGED << now, ctxVars, storeVars, chatVars, fnVars, rateVars >>

HasFaq(store, id) == \E i \in DOMAIN store : store[i].id = id

\* create_faq up to the return of insert_one
CreateFaqInsert(id) ==
    /\ faq_admin.pc = "idle"
    /\ ~HasFaq(faq_store, id)
    /\ faq_store' = Append(faq_store, faq_doc(id))
    /\ faq_admin' = [pc |-> "written", op |-> "create_faq"]
    /\ UNCHANGED << cached_faqs, faq_call, search_result >>
    /\ UNCHANGED << now, ctxVars, storeVars, chatVars, fnVars, rateVars >>

\* update_faq up to the return of update_one: modified_count is 1 when the
\* document exists (updated_at always changes), and the call ends without
\* touching the cache when it does not
UpdateFaqWrite(id, priority) ==
    /\ faq_admin.pc = "idle"
    /\ IF HasFaq(faq_store, id)
       THEN /\ faq_store' = [i \in DOMAIN faq_store |->
                               IF faq_store[i].id = id
                               THEN [faq_store[i] EXCEPT !.priority = priority]
                               ELSE faq_store[i]]
            /\ faq_admin' = [pc |-> "written", op |-> "update_faq"]
       ELSE UNCHANGED << faq_store, faq_admin >>
    /\ UNCHANGED << cached_faqs, faq_call, search_result >>
    /\ UNCHANGED << now, ctxVars, storeVars, chatVars, fnVars, rateVars >>

\* delete_faq up to the return of delete_one
DeleteFaqWrite(id) ==
    /\ faq_admin.pc = "idle"
    /\ IF HasFaq(faq_store, id)
       THEN /\ faq_store' = SelectSeq(faq_store, LAMBDA doc : doc.id # id)
            /\ faq_admin' = [pc |-> "written", op |-> "delete_faq"]
       ELSE UNCHANGED << faq_store, faq_admin >>
    /\ UNCHANGED << cached_faqs, faq_call, search_result >>
    /\ UNCHANGED << now, ctxVars, storeVars, chatVars, fnVars, rateVars >>

\* self._cached_faqs = {} of create_faq, update_faq and delete_faq, and
\* their return
AdminInvalidate ==
    /\ faq_admin.pc = "written"
    /\ cached_faqs' = {}
    /\ faq_admin' = IdleCall
    /\ UNCHANGED << faq_store, faq_call, search_result >>
    /\ UNCHANGED << now, ctxVars, storeVars, chatVars, fnVars, rateVars >>

NextFaq ==
    \/ \E query \in FaqQueries, category \in FaqCategories,
          language \in FaqLanguages, limit \in FaqLimits :
          SearchFaqsStart(query, category, language, limit)
    \/ SearchFaqsLoaded
    \/ \E id \in AdminFaqIds : CreateFaqInsert(id)
    \/ \E id \in AdminFaqIds, priority \in UpdatedPriorities :
          UpdateFaqWrite(id, priority)
    \/ \E id \in AdminFaqIds : DeleteFaqWrite(id)
    \/ AdminInvalidate

SpecFaq == Init /\ [][NextFaq]_vars

\* ------------------------------------------ SpecRate: the rate limiter

\* time.time() advances
RateTick ==
    /\ clock < MaxClock
    /\ clock' = clock + 1
    /\ rate_last' = [rate_last EXCEPT !.granted =
                       [c \in Clients |->
                          SelectSeq(rate_last.granted[c],
                                    LAMBDA t : clock' - t < RateWindow)]]
    /\ UNCHANGED requests
    /\ UNCHANGED << now, ctxVars, storeVars, chatVars, fnVars, faqVars >>

\* check_rate_limit for a request of client_id: is_allowed, and
\* get_remaining for the 429 detail when it is refused
CheckRateLimit(client_id) ==
    LET r == is_allowed(requests, client_id, clock)
    IN  /\ requests' = r.requests
        /\ rate_last' =
             [ client_id |-> Some(client_id), time |-> clock, allowed |-> r.result,
               remaining |-> IF r.result THEN NoneV
                             ELSE Some(get_remaining(r.requests, client_id, clock)),
               granted |-> IF r.result
                           THEN [rate_last.granted EXCEPT
                                   ![client_id] = Append(@, clock)]
                           ELSE rate_last.granted ]
        /\ UNCHANGED clock
        /\ UNCHANGED << now, ctxVars, storeVars, chatVars, fnVars, faqVars >>

NextRate ==
    \/ RateTick
    \/ \E client_id \in Clients : CheckRateLimit(client_id)

SpecRate == Init /\ [][NextRate]_vars

\* ------------------------------------------------------------------ claims

Range(f) == {f[i] : i \in DOMAIN f}

\* C1: the store never holds more than max_sessions sessions, and once
\* max_sessions + 1 sessions with distinct ids have been created one after
\* another, get_session on the first of them returns None.
C1_CeilingAndOldestGone ==
    /\ get_session_count(sessions) <= MaxSessions
    /\ ( /\ Len(createRun) = MaxSessions + 1
         /\ Cardinality(Range(createRun)) = MaxSessions + 1 )
       => get_session(sessions, createRun[1]) = NoneV

\* C1 witness: the creation that completed a run of max_sessions + 1 distinct
\* ids removed the first of them while nothing can have been idle beyond
\* the timeout, and the store is full.
C1_Witness ==
    /\ lastOp.op = "create"
    /\ Len(createRun) = MaxSessions + 1
    /\ Cardinality(Range(createRun)) = MaxSessions + 1
    /\ now <= SessionTimeout
    /\ lastOp.removed = {createRun[1]}
    /\ get_session_count(sessions) = MaxSessions
    /\ get_session(sessions, createRun[1]) = NoneV

\* C2: a get_or_create_session call that creates a session removes every
\* held session whose updated_at is more than the timeout before now, also
\* below the ceiling; a session idle for at most the timeout goes only when
\* the ceiling forces it, that is when the sessions kept behind it in the
\* order, with the new one, already fill the store.  (Every step of Spec
\* assigns lastOp, so lastOp'.op = "create" marks exactly the creating calls.)
C2_TtlOnCreation ==
    [][ lastOp'.op = "create" =>
            \A i \in DOMAIN sessions :
              LET c == sessions[i]
                  freshBehind ==
                    Cardinality({j \in DOMAIN sessions :
                        j > i /\ now - sessions[j].updated_at <= SessionTimeout})
              IN  /\ now - c.updated_at > SessionTimeout
                       => ~Held(sessions', c.session_id)
                  /\ now - c.updated_at <= SessionTimeout
                       => ( Held(sessions', c.session_id)
                              <=> freshBehind + 1 < MaxSessions )
      ]_vars

\* C2 witness: a creation removed a session although the store stayed below
\* its ceiling, so the removal was the idle-timeout step.
C2_Witness ==
    /\ lastOp.op = "create"
    /\ lastOp.removed # {}
    /\ get_session_count(sessions) < MaxSessions

\* --- claims about process_message

Done == pm.pc = "done"

\* the call returned a response other than the error response
Answered == Done /\ resp[1].intent # "error"

IsPrefix(a, b) ==
    /\ Len(a) <= Len(b)
    /\ \A i \in DOMAIN a : a[i] = b[i]

StageOrder == << "faq", "rag", "prompt", "llm" >>

NeedsHumanPhrases ==
    { "speak to someone", "talk to human", "real person", "manager",
      "supervisor", "complaint", "urgent", "emergency", "help me please",
      "not working" }

\* the text contains a needs-human phrase, whatever its case
HasNeedsHumanPhrase(text) ==
    LET t == lower(text)
    IN  \E phrase \in NeedsHumanPhrases : Contains(t, phrase)

\* the texts step 9 can make of a stage's answer in the resolved language
TranslatedBack(text) ==
    IF pm.detected_lang = "en" \/ text = "" THEN {text}
    ELSE {text, Rendering(text, pm.detected_lang)}

\* C3: the stage calls are made in the order FAQ search, retrieval, prompt
\* and LLM call, the FAQ search first; for a greeting or goodbye intent none
\* of them is made, and the response has confidence 1.0, no sources, and
\* fallback_required false unless the message holds a needs-human phrase.
C3_CannedShortCircuit ==
    /\ IsPrefix(pm.calls, StageOrder)
    /\ pm.intent \in {"greeting", "goodbye"} =>
          /\ pm.calls = << >>
          /\ IsNone(pm.faq_result) /\ IsNone(pm.rag_result)
          /\ IsNone(pm.context_prompt) /\ IsNone(pm.llm_result)
          /\ Done =>
                /\ resp[1].confidence_score = 100
                /\ resp[1].sources = NoneV
                /\ ~HasNeedsHumanPhrase(pm.request.message)
                      => ~resp[1].fallback_required
    /\ (pm.intent # "" /\ pm.intent \notin {"greeting", "goodbye"}) =>
          /\ pm.calls # << >>
          /\ pm.calls[1] = "faq"

\* C3 witness: "hello" in English without a session id was answered in
\* English with confidence 1.0, no sources, no fallback, and no stage call.
C3_Witness ==
    /\ Done
    /\ pm.request = [message |-> "hello", language |-> "en", session_id |-> NoneV]
    /\ pm.intent = "greeting"
    /\ pm.calls = << >>
    /\ resp[1].language = "en"
    /\ resp[1].confidence_score = 100
    /\ resp[1].sources = NoneV
    /\ ~resp[1].fallback_required

\* C4: once the FAQ search has returned, its answer is used exactly when
\* there is a top match with score above 0.7 (not at 0.7); then neither
\* retrieval nor the LLM stage is entered, and the response is that answer
\* (after the translation back), with the score as confidence and
\* ["FAQ Database"] as sources.
C4_FaqThreshold ==
    LET returned == pm.calls # << >> /\ pm.pc # "faq"
        used == returned /\ pm.calls = << "faq" >>
    IN  /\ returned =>
              /\ pm.intent \notin {"greeting", "goodbye"}
              /\ used <=> ( /\ ~IsNone(pm.faq_result)
                            /\ pm.faq_result[1].confidence > 70 )
        /\ used =>
              /\ IsNone(pm.rag_result)
              /\ IsNone(pm.context_prompt) /\ IsNone(pm.llm_result)
              /\ Done =>
                    /\ resp[1].response \in TranslatedBack(pm.faq_result[1].answer)
                    /\ resp[1].confidence_score = pm.faq_result[1].confidence
                    /\ resp[1].sources = Some(<< "FAQ Database" >>)

\* C4 witness: an English fee question was answered by the FAQ match of
\* score 0.71, verbatim.
C4_Witness ==
    /\ Done
    /\ pm.detected_lang = "en"
    /\ pm.intent = "fee_query"
    /\ pm.calls = << "faq" >>
    /\ ~IsNone(pm.faq_result) /\ pm.faq_result[1].confidence = 71
    /\ resp[1].response = FaqAnswer
    /\ resp[1].confidence_score = 71

\* C5: once retrieval has returned (without raising), its answer is used
\* exactly when the answer is present, not empty, and its confidence is
\* above 0.4 (not at 0.4); otherwise the prompt is built and the LLM called.
\* When it is used, no prompt is built, the LLM stage is not entered, and
\* the response carries retrieval's confidence and sources.
C5_RagThreshold ==
    LET returned == ~IsNone(pm.rag_result) /\ ~pm.rag_result[1].raised
        used == returned /\ pm.calls = << "faq", "rag" >>
    IN  /\ returned =>
              /\ ~faq_usable(pm.faq_result)
              /\ used <=> ( /\ ~IsNone(pm.rag_result[1].answer)
                            /\ pm.rag_result[1].answer # Some("")
                            /\ pm.rag_result[1].confidence > 40 )
              /\ ~used => ( /\ pm.calls = StageOrder
                            /\ ~IsNone(pm.context_prompt) )
        /\ used =>
              /\ IsNone(pm.context_prompt) /\ IsNone(pm.llm_result)
              /\ Done =>
                    /\ resp[1].response \in TranslatedBack(pm.rag_result[1].answer[1])
                    /\ resp[1].confidence_score = pm.rag_result[1].confidence
                    /\ resp[1].sources = Some(pm.rag_result[1].sources)

\* C5 witness: after an FAQ match of exactly 0.7, retrieval answered with
\* confidence 0.41 and that answer was returned.
C5_Witness ==
    /\ Done
    /\ ~IsNone(pm.faq_result) /\ pm.faq_result[1].confidence = 70
    /\ pm.calls = << "faq", "rag" >>
    /\ ~IsNone(pm.rag_result) /\ pm.rag_result[1].confidence = 41
    /\ resp[1].confidence_score = 41
    /\ resp[1].sources = Some(RagSources)

\* C6: when the LLM stage was reached, the response is the LLM's text with
\* confidence 0.6 and no sources if the adapter succeeded; if it failed the
\* response is the canned fallback string of the resolved language (after
\* the translation back) with confidence 0.0, no sources, and
\* fallback_required true.
C6_LlmStage ==
    (Done /\ ~IsNone(pm.llm_result)) =>
        /\ pm.calls = StageOrder
        /\ resp[1].sources = NoneV
        /\ pm.llm_result[1].success =>
              /\ resp[1].response \in TranslatedBack(pm.llm_result[1].response[1])
              /\ resp[1].confidence_score = 60
        /\ ~pm.llm_result[1].success =>
              /\ resp[1].response
                    \in TranslatedBack(LANGUAGES[pm.detected_lang].fallback)
              /\ resp[1].confidence_score = 0
              /\ resp[1].fallback_required

\* C6 witness: the adapter failed on a message without a needs-human phrase
\* and the response is the canned fallback with confidence 0.0 and
\* fallback_required true.
C6_Witness ==
    /\ Done
    /\ ~IsNone(pm.llm_result) /\ ~pm.llm_result[1].success
    /\ ~HasNeedsHumanPhrase(pm.request.message)
    /\ resp[1].response = LANGUAGES["en"].fallback
    /\ resp[1].confidence_score = 0
    /\ resp[1].fallback_required

\* needs_human_fallback on the model's messages at confidences around 0.3
C7_FunctionCases ==
    /\ \A m \in ChatMessages, c \in {0, 29, 30, 31, 100} :
          needs_human_fallback(m, c) <=> (HasNeedsHumanPhrase(m) \/ c < 30)
    /\ ~needs_human_fallback("hello", 30)
    /\ needs_human_fallback("please let me speak to someone", 100)

\* C7: in every response other than the error response, fallback_required
\* is true exactly when the original message holds a needs-human phrase in
\* any case or the confidence is below 0.3; confidence exactly 0.3 without
\* a phrase gives false.
C7_FallbackRequired ==
    /\ C7_FunctionCases
    /\ Answered =>
          ( resp[1].fallback_required
              <=> ( \/ HasNeedsHumanPhrase(pm.request.message)
                    \/ resp[1].confidence_score < 30 ) )

\* C7 witness: a greeting that asks to "Speak To Someone" was answered with
\* confidence 1.0 and fallback_required true.
C7_Witness ==
    /\ Answered
    /\ pm.request.message = "Hello, I want to Speak To Someone"
    /\ pm.intent = "greeting"
    /\ resp[1].confidence_score = 100
    /\ resp[1].fallback_required

\* C8: when a step of the call has raised, the call has ended with the
\* canned error string of the request's language, confidence 0.0,
\* fallback_required true, and the session id resolved at the start, which
\* is the caller's id when the caller sent one.
C8_ErrorResponse ==
    (~IsNone(pm.rag_result) /\ pm.rag_result[1].raised) =>
        /\ Done
        /\ ~IsNone(resp)
        /\ resp[1].response = LANGUAGES[pm.request.language].error
        /\ resp[1].confidence_score = 0
        /\ resp[1].fallback_required
        /\ resp[1].session_id = pm.session_id
        /\ ~IsNone(pm.request.session_id)
              => resp[1].session_id = pm.request.session_id[1]

\* C8 witness: retrieval raised in a call for the caller's session, after
\* the user message was recorded, and the error response carries that id.
C8_Witness ==
    /\ Done
    /\ ~IsNone(pm.rag_result) /\ pm.rag_result[1].raised
    /\ pm.request.session_id = Some(ClientSessionId)
    /\ pm.request.language = "hi"
    /\ resp[1].response = LANGUAGES["hi"].error
    /\ resp[1].session_id = ClientSessionId
    /\ resp[1].intent = "error"

\* C9: no exception leaves process_message, and whenever it has returned
\* there is a response with confidence within [0, 1], a supported language
\* and the session id of the call.
C9_AlwaysWellFormed ==
    /\ pm.pc # "raised"
    /\ Done =>
          /\ ~IsNone(resp)
          /\ resp[1].confidence_score >= 0
          /\ resp[1].confidence_score <= 100
          /\ resp[1].language \in LanguageEnum
          /\ resp[1].session_id \in SessionIds
          /\ resp[1].session_id = pm.session_id

\* C9 witness: the call returned a well-formed response although the
\* translation to English produced nothing new, the FAQ search found
\* nothing, retrieval found nothing and the LLM adapter failed.
C9_Witness ==
    /\ Done
    /\ pm.request.message = "shulk kya hai"
    /\ pm.english_message = "shulk kya hai"
    /\ pm.calls = StageOrder
    /\ IsNone(pm.faq_result)
    /\ ~IsNone(pm.rag_result) /\ IsNone(pm.rag_result[1].answer)
    /\ ~IsNone(pm.llm_result) /\ ~pm.llm_result[1].success
    /\ resp[1].confidence_score = 0
    /\ resp[1].language = "hi"

\* C10: a context changed only through add_user_message,
\* add_assistant_message, update_entities and add_intent holds at most
\* max_messages messages and at most 5 intents, and its updated_at is not
\* earlier than its created_at.
C10_ContextBounds ==
    /\ Len(cctx.messages) <= cctx.max_messages
    /\ Len(cctx.intent_history) <= 5
    /\ cctx.updated_at >= cctx.created_at

\* C10 witness: more than max_messages messages and more than 5 intents
\* have been added, the context is full on both, and it was updated after
\* its creation.
C10_Witness ==
    /\ Len(ctxMsgLog) = cctx.max_messages + 1
    /\ Len(cctx.messages) = cctx.max_messages
    /\ Len(ctxIntentLog) = 6
    /\ Len(cctx.intent_history) = 5
    /\ cctx.updated_at > cctx.created_at

\* C11: clear_session(id) returns true exactly when id was held; afterwards
\* id is absent, the count is one less when it was held, the other sessions
\* are the same objects in the same order, and a second clear_session(id)
\* returns false and changes nothing.
C11_ClearSession ==
    [][ lastOp'.op = "clear" =>
            LET sid == lastOp'.sid
            IN  /\ lastOp'.result <=> Held(sessions, sid)
                /\ get_session(sessions', sid) = NoneV
                /\ sessions' = SelectSeq(sessions, LAMBDA c : c.session_id # sid)
                /\ Held(sessions, sid) =>
                      get_session_count(sessions') = get_session_count(sessions) - 1
                /\ ~Held(sessions, sid) => sessions' = sessions
                /\ ~Held(sessions', sid)
                /\ clear_session(sessions', sid) = sessions'
      ]_vars

\* C11 witness: a held session was cleared while another one stayed.
C11_Witness ==
    /\ lastOp.op = "clear"
    /\ lastOp.result
    /\ lastOp.removed = {lastOp.sid}
    /\ get_session_count(sessions) >= 1
    /\ ~Held(sessions, lastOp.sid)

\* the language the turn should use according to the detection result
TurnLanguage ==
    IF pm.detection[1].success /\ pm.detection[1].confidence > 70
    THEN pm.detection[1].language
    ELSE pm.request.language

\* C12: once the call has returned, the language of the turn is the detected
\* language when the detection succeeded with confidence above 0.7 and the
\* declared language otherwise: it is the language the message was
\* translated from, the language of the recorded messages, the language of
\* the canned string used, and the language of the response.
C12_TurnLanguage ==
    Done =>
        /\ pm.detected_lang = TurnLanguage
        /\ pm.english_message \in
              { translate_to_english(pm.request.message, TurnLanguage, ok) :
                    ok \in BOOLEAN }
        /\ \A i \in DOMAIN Conversation.messages :
              Conversation.messages[i].language = TurnLanguage
        /\ resp[1].language = TurnLanguage
        /\ pm.intent = "greeting" =>
              resp[1].response \in TranslatedBack(LANGUAGES[TurnLanguage].greeting)
        /\ resp[1].intent = "error" =>
              resp[1].response = LANGUAGES[TurnLanguage].error

\* C12 without the error response: the same statement for the calls that
\* returned an answer.
C12_TurnLanguageAnswered ==
    Answered =>
        /\ pm.detected_lang = TurnLanguage
        /\ \A i \in DOMAIN Conversation.messages :
              Conversation.messages[i].language = TurnLanguage
        /\ resp[1].language = TurnLanguage

IntentCalled == ~IsNone(intent_result)

\* the number of keywords of the intent that occur in the text
KeywordHits(text, intent) ==
    LET i == CHOOSE j \in DOMAIN INTENT_KEYWORDS : INTENT_KEYWORDS[j].intent = intent
    IN  Len(matched_keywords(lower(text), INTENT_KEYWORDS[i].keywords))

AllIntents == { INTENT_KEYWORDS[j].intent : j \in DOMAIN INTENT_KEYWORDS }

\* exactly one greeting keyword and no keyword of any other intent
OneGreetingOnly(text) ==
    /\ KeywordHits(text, "greeting") = 1
    /\ \A intent \in AllIntents \ {"greeting"} : KeywordHits(text, intent) = 0

\* no keyword of any intent
NoKeyword(text) == \A intent \in AllIntents : KeywordHits(text, intent) = 0

\* the fraction c equals n / d
IsFraction(c, n, d) == c.num * d = n * c.den

\* C13: for a text with exactly one greeting keyword and no keyword of any
\* other intent, detect_intent returns intent "greeting" with confidence 1.0.
C13_SingleGreetingCertain ==
    (IntentCalled /\ OneGreetingOnly(IntentText)) =>
        /\ intent_result[1].intent = "greeting"
        /\ IsFraction(intent_result[1].confidence, 1, 1)

\* C13 as the code has it: for such a text detect_intent returns intent
\* "greeting" with the one matched keyword and confidence 1/11, the score 1
\* divided by the number of greeting keywords.
C13_SingleGreetingNormalised ==
    (IntentCalled /\ OneGreetingOnly(IntentText)) =>
        /\ intent_result[1].intent = "greeting"
        /\ Len(intent_result[1].matched_keywords) = 1
        /\ IsFraction(intent_result[1].confidence, 1, 11)

C13_Witness ==
    /\ IntentCalled
    /\ words = << "this", "campus" >>
    /\ OneGreetingOnly(IntentText)
    /\ intent_result[1].intent = "greeting"
    /\ intent_result[1].matched_keywords = << "hi" >>

\* C14: for every text in which no keyword of any intent occurs, the empty
\* string included, detect_intent returns intent "general" with confidence
\* 0.5 and no matched keywords.
C14_NoKeywordGeneral ==
    (IntentCalled /\ NoKeyword(IntentText)) =>
        /\ intent_result[1].intent = "general"
        /\ IsFraction(intent_result[1].confidence, 1, 2)
        /\ intent_result[1].matched_keywords = << >>

\* C14 as the code has it: for such a text detect_intent returns intent
\* "general" and no matched keywords, with confidence 0.5 when the text is
\* not empty and confidence 0.0 when it is the empty string.
C14_NoKeywordGeneralUnlessEmpty ==
    (IntentCalled /\ NoKeyword(IntentText)) =>
        /\ intent_result[1].intent = "general"
        /\ intent_result[1].matched_keywords = << >>
        /\ IntentText # "" => IsFraction(intent_result[1].confidence, 1, 2)
        /\ IntentText = "" => IsFraction(intent_result[1].confidence, 0, 1)

C14_Witness ==
    /\ IntentCalled
    /\ words = << "campus", "campus" >>
    /\ NoKeyword(IntentText)
    /\ intent_result[1].intent = "general"

\* the text t starts with the text p
StartsWith(t, p) == Len(p) <= Len(t) /\ SubSeq(t, 1, Len(p)) = p

\* the line the prompt shows for a stored message
PromptLine(m) ==
    (IF m.role = "user" THEN "User" ELSE "Assistant") \o ": " \o m.content

\* the lines of the messages ms, each but the last followed by a line break
RECURSIVE PromptLines(_)
PromptLines(ms) ==
    IF Len(ms) = 0 THEN ""
    ELSE IF Len(ms) = 1 THEN PromptLine(ms[1])
    ELSE PromptLine(ms[1]) \o "\n" \o PromptLines(Tail(ms))

\* C15: get_context_prompt(session_id, query) returns the query unchanged
\* when the session is absent or holds no messages; otherwise the text it
\* returns starts with "Previous conversation:", goes on with the last
\* min(3, n) of the n stored messages as "Role: content" lines in stored
\* order, and then holds the current query and no further message line.
C15_ContextPrompt ==
    ~IsNone(prompt) =>
        LET sid == prompt[1].session_id
            query == prompt[1].current_query
            result == prompt[1].result
        IN  IF ~Held(sessions, sid) \/ Len(sessions[IndexOf(sessions, sid)].messages) = 0
            THEN result = query
            ELSE
            LET ms == sessions[IndexOf(sessions, sid)].messages
                n == Min(3, Len(ms))
                shown == SubSeq(ms, Len(ms) - n + 1, Len(ms))
                head == "Previous conversation:\n" \o PromptLines(shown)
                rest == SubSeq(result, Len(head) + 1, Len(result))
            IN  /\ Contains(result, "Previous conversation:")
                /\ StartsWith(result, head)
                /\ Contains(rest, query)
                /\ \A i \in DOMAIN ms : ~Contains(rest, PromptLine(ms[i]))

\* a prompt built for a session that holds more than three messages
C15_Witness ==
    /\ ~IsNone(prompt)
    /\ Held(sessions, prompt[1].session_id)
    /\ LET ms == sessions[IndexOf(sessions, prompt[1].session_id)].messages
       IN  /\ Len(ms) = 4
           /\ ms[1].role = "user" /\ ms[2].role = "assistant"
           /\ ms[3].role = "user" /\ ms[3].content # ms[1].content
           /\ ms[4].role = "assistant"
    /\ prompt[1].result # prompt[1].current_query

\* C16: each of add_user_message, add_assistant_message, update_entities and
\* add_intent sets updated_at to the current time: whenever one of them has
\* changed the context, its updated_at is the clock value of the call, so
\* that the context is not idle at that moment.
C16_MutationsRefresh ==
    [][ cctx' # cctx =>
            /\ cctx'.updated_at = now'
            /\ ~IsExpired(cctx', now') ]_vars

\* the ids of the store in OrderedDict order, the next to be evicted first
EvictionOrder(ss) == [i \in DOMAIN ss |-> ss[i].session_id]

\* the place of id in a sequence of ids
PlaceOf(order, id) == CHOOSE i \in DOMAIN order : order[i] = id

\* C17: the order in which the ceiling evicts is the order of the latest
\* get_or_create_session access (creation or hit) of each held session: a
\* creation that leaves the store above its ceiling removes, among the
\* sessions that are not idle beyond the timeout, those accessed longest
\* ago, so that a session re-accessed after other sessions were created
\* outlives them; get_session reads and message appends (and add_intent)
\* leave the order as it is.  (Sessions idle beyond the timeout are removed
\* before the ceiling is looked at; that is C2.)
C17_LruEviction ==
    [][ /\ EvictionOrder(sessions') = accessOrder'
        /\ lastOp'.op = "create" =>
              \A r \in lastOp'.removed, k \in SessionIdsOf(sessions') \ {lastOp'.sid} :
                  ~IsExpired(sessions[IndexOf(sessions, r)], now)
                      => PlaceOf(accessOrder, r) < PlaceOf(accessOrder, k)
        /\ lastOp'.op = "none" => EvictionOrder(sessions') = EvictionOrder(sessions)
      ]_vars

\* C17 witness: with nothing idle, sessions 1 and 2 were created in this
\* order and session 1 was accessed again; the creation that overfilled the
\* store removed session 2 and kept session 1.
C17_Witness ==
    /\ lastOp.op = "create" /\ lastOp.removed = {2}
    /\ now = 0
    /\ Held(sessions, 1)
    /\ get_session_count(sessions) = MaxSessions

\* C18: after any sequence of add_message calls, messages is exactly the
\* last min(k, max_messages) of the k messages ever appended, in insertion
\* order; intent_history is exactly the last min(k, 5) of the k intents ever
\* added, in order.  (ctxMsgLog and ctxIntentLog hold the latest
\* max_messages + 1 messages and the latest 6 intents handed in.)
C18_ExactlyTheLatest ==
    /\ cctx.messages =
          LastN(ctxMsgLog, Min(Len(ctxMsgLog), cctx.max_messages))
    /\ cctx.intent_history =
          LastN(ctxIntentLog, Min(Len(ctxIntentLog), 5))

\* C18 witness: more messages and more intents were handed in than are
\* kept, and in both the entry dropped differs from the one kept in its
\* place, so that keeping the oldest would show.
C18_Witness ==
    /\ Len(ctxMsgLog) = cctx.max_messages + 1
    /\ cctx.messages = Tail(ctxMsgLog)
    /\ cctx.messages # SubSeq(ctxMsgLog, 1, cctx.max_messages)
    /\ Len(ctxIntentLog) = 6
    /\ cctx.intent_history = Tail(ctxIntentLog)
    /\ cctx.intent_history # SubSeq(ctxIntentLog, 1, 5)

\* C19: for a message whose detected intent is greeting, the response text
\* returned to the caller is the canned greeting string of the resolved
\* language; for goodbye it is the hardcoded goodbye string of the resolved
\* language.
C19_CannedText ==
    Answered =>
        /\ resp[1].intent = "greeting" =>
              resp[1].response = LANGUAGES[pm.detected_lang].greeting
        /\ resp[1].intent = "goodbye" =>
              resp[1].response = goodbye_messages[pm.detected_lang]

\* C19 for a turn resolved to English, where no translation is made
C19_CannedTextEnglish ==
    (Answered /\ pm.detected_lang = "en") =>
        /\ resp[1].intent = "greeting" =>
              resp[1].response = LANGUAGES["en"].greeting
        /\ resp[1].intent = "goodbye" =>
              resp[1].response = goodbye_messages["en"]

\* C20: a failure of the retrieval service during process_message (failing
\* to initialise, or erroring during the search) is treated as "no answer":
\* the call goes on to the LLM stage and does not return the generic error
\* response.
C20_RetrievalFailureIsNoAnswer ==
    (~IsNone(pm.rag_result) /\ pm.rag_result[1].failure # "none") =>
        /\ "llm" \in Range(pm.calls)
        /\ Done => resp[1].intent # "error"

\* C20 for a search that raises, which search_documents catches
C20_SearchFailureIsNoAnswer ==
    (~IsNone(pm.rag_result) /\ pm.rag_result[1].failure = "search") =>
        /\ "llm" \in Range(pm.calls)
        /\ Done => resp[1].intent # "error"

\* the call ended in the error response
Failed == Done /\ resp[1].intent = "error"

\* C21: when process_message ends in the error response, the context
\* mutations the call made are kept: the entities found in the English text
\* are in the session, the intent is the last of its intent history, the
\* user message (recorded before the step that failed) is its last message,
\* with the original text and the resolved language, and no assistant
\* message was appended.
C21_NoRollback ==
    Failed =>
        LET c == Conversation
        IN  /\ extract_entities(pm.english_message) \subseteq c.entities
            /\ c.intent_history # << >>
            /\ c.intent_history[Len(c.intent_history)] = pm.intent
            /\ c.messages # << >>
            /\ c.messages[Len(c.messages)].role = "user"
            /\ c.messages[Len(c.messages)].content = pm.request.message
            /\ c.messages[Len(c.messages)].language = pm.detected_lang
            /\ \A i \in DOMAIN c.messages : c.messages[i].role # "assistant"

\* C21 witness: the call for "what is the cse fee" failed in retrieval; the
\* session holds the department, the intent and the user message.
C21_Witness ==
    /\ Failed
    /\ pm.request.message = "what is the cse fee"
    /\ Held(sessions, pm.session_id)
    /\ get_session(sessions, pm.session_id)[1].entities # {}
    /\ get_session(sessions, pm.session_id)[1].intent_history = << "fee_query" >>
    /\ Len(get_session(sessions, pm.session_id)[1].messages) = 1

\* C22: within one non-error call the context is written in the order
\* entities and intent, the user's original message with the resolved
\* language, and, only after the answer is produced and translated, the
\* assistant message: before the English text is classified the session has
\* no message of the turn; from then until the response is built its last
\* message is the user message; and after the call has returned its last
\* two messages are that user message and the assistant message with the
\* returned response text, language, sources and confidence.
C22_TurnOrder ==
    LET c == Conversation
        n == Len(c.messages)
    IN  /\ pm.pc \in {"detect", "to_english"} =>
              c.messages = << >> /\ c.intent_history = << >>
        /\ pm.pc \in {"faq", "rag", "llm", "from_english", "suggest"} =>
              /\ c.intent_history = << pm.intent >>
              /\ extract_entities(pm.english_message) \subseteq c.entities
              /\ n = 1
              /\ c.messages[1].role = "user"
              /\ c.messages[1].content = pm.request.message
              /\ c.messages[1].language = pm.detected_lang
        /\ Answered =>
              /\ n = 2
              /\ c.messages[1].role = "user"
              /\ c.messages[1].content = pm.request.message
              /\ c.messages[1].language = pm.detected_lang
              /\ c.messages[2].role = "assistant"
              /\ c.messages[2].content = resp[1].response
              /\ c.messages[2].language = resp[1].language
              /\ c.messages[2].metadata.sources = resp[1].sources
              /\ c.messages[2].metadata.confidence = Some(resp[1].confidence_score)

\* C22 witness: a Hindi turn answered from retrieval: the user message is
\* the untranslated text, the assistant message the translated answer with
\* the document sources.
C22_Witness ==
    /\ Answered
    /\ pm.request.message = "shulk kya hai"
    /\ pm.english_message = "what is the fee"
    /\ resp[1].language = "hi"
    /\ resp[1].sources = Some(RagSources)
    /\ resp[1].response = Rendering(RagAnswer, "hi")
    /\ Len(Conversation.messages) = 2
    /\ Conversation.messages[2].content = resp[1].response

\* the place of an intent in the keyword table
TablePlace(intent) ==
    CHOOSE j \in DOMAIN INTENT_KEYWORDS : INTENT_KEYWORDS[j].intent = intent

\* twice matchCount x (1 / priority), priority 1 for greeting and goodbye
TwiceScore(text, intent) ==
    IF intent \in {"greeting", "goodbye"}
    THEN 2 * KeywordHits(text, intent) ELSE KeywordHits(text, intent)

\* C23: for every non-empty text with at least one keyword match,
\* detect_intent returns the intent with the greatest score matchCount x
\* (1 / priority), among equal scores the one that comes first in the
\* keyword table, and the confidence min(score / number of keywords of that
\* intent, 1.0), which lies in (0, 1].
C23_ArgmaxFirst ==
    (IntentCalled /\ IntentText # "" /\ ~NoKeyword(IntentText)) =>
        LET w == intent_result[1].intent
            c == intent_result[1].confidence
            s2 == TwiceScore(IntentText, w)
            nk == Len(INTENT_KEYWORDS[TablePlace(w)].keywords)
        IN  /\ w \in AllIntents
            /\ s2 > 0
            /\ \A o \in AllIntents :
                  /\ TwiceScore(IntentText, o) <= s2
                  /\ (o # w /\ TwiceScore(IntentText, o) = s2)
                        => TablePlace(w) < TablePlace(o)
            /\ IF s2 >= 2 * nk THEN IsFraction(c, 1, 1)
                              ELSE IsFraction(c, s2, 2 * nk)
            /\ c.num > 0 /\ c.num <= c.den

\* C23 witness: "Hello bye" scores greeting and goodbye equally and greeting,
\* the earlier of the table, is returned.
C23_Witness ==
    /\ IntentCalled
    /\ words = << "Hello", "bye" >>
    /\ TwiceScore(IntentText, "greeting") = TwiceScore(IntentText, "goodbye")
    /\ intent_result[1].intent = "greeting"

\* "fee bye": goodbye, the later of the table, wins by its greater score
C23_WitnessLater ==
    /\ IntentCalled
    /\ words = << "fee", "bye" >>
    /\ intent_result[1].intent = "goodbye"

\* the key set of a FAQ: its declared keywords, lowercased, united with the
\* keywords extracted from its question
KeywordSet(faq) ==
    {lower(k) : k \in Range(faq.keywords)} \cup Range(extract_keywords(faq.question))

\* ten times |query keywords| times the score each candidate is due, 0 for a
\* candidate of another category or without a common keyword
RECURSIVE DueTenths(_, _, _)
DueTenths(faqs, qk, category) ==
    IF faqs = << >> THEN << >>
    ELSE LET faq == faqs[Len(faqs)]
             hits == Cardinality(qk \cap KeywordSet(faq))
             wanted == IsNone(category) \/ lower(faq.category) = lower(category[1])
         IN  Append(DueTenths(SubSeq(faqs, 1, Len(faqs) - 1), qk, category),
                    IF wanted /\ hits > 0
                    THEN Min(10 * hits + faq.priority * Cardinality(qk),
                             10 * Cardinality(qk))
                    ELSE 0)

\* C24: every search_faqs call returns, from the list it scored, only FAQs of
\* the requested category (when one is given) whose key set intersects the
\* query's keywords; each carries min(|intersection| / |query keywords| +
\* priority * 0.1, 1.0); the matches are in non-increasing score order, equal
\* scores in candidate order; they are the first min(limit, total) of that
\* order, total counting every such FAQ, so a query that intersects no FAQ
\* returns no match and total 0.
C24_SearchFaqs ==
    ~IsNone(search_result) =>
        LET r == search_result[1]
            m == r.result.matches
            qk == Range(extract_keywords(r.query))
            q == Cardinality(qk)
            due == DueTenths(r.faqs, qk, r.category)
            E == {i \in DOMAIN r.faqs : due[i] > 0}
            Is(k, i) == /\ m[k].question = r.faqs[i].question
                        /\ m[k].answer = r.faqs[i].answer
                        /\ m[k].score.num * 10 * q = due[i] * m[k].score.den
            Place(k) == CHOOSE i \in E : Is(k, i)
        IN  /\ r.result.total = Cardinality(E)
            /\ Len(m) = Min(r.limit, Cardinality(E))
            /\ \A k \in DOMAIN m : \E i \in E : Is(k, i)
            /\ \A k, l \in DOMAIN m :
                  k < l => \/ due[Place(k)] > due[Place(l)]
                           \/ /\ due[Place(k)] = due[Place(l)]
                              /\ Place(k) < Place(l)
            /\ \A i \in E :
                  (\A k \in DOMAIN m : Place(k) # i) =>
                      \A k \in DOMAIN m : due[Place(k)] >= due[i]
            /\ E = {} => m = << >> /\ r.result.total = 0

\* a search of three candidates returned the second one first and the two
\* others, of equal score, in candidate order
C24_Witness ==
    /\ ~IsNone(search_result)
    /\ search_result[1].query = "Hostel fee?"
    /\ IsNone(search_result[1].category)
    /\ Len(search_result[1].faqs) = 3
    /\ LET m == search_result[1].result.matches
       IN  /\ Len(m) = 3
           /\ m[1].question = FaqPayloads[2].question
           /\ m[2].question = FaqPayloads[1].question
           /\ m[3].question = FaqPayloads[3].question
           /\ m[2].score = m[3].score
           /\ m[1].score.num = m[1].score.den

\* C25: when process_message has returned a response that is not the error
\* response, the store holds a context under the response's session id and
\* the latest message of that context is the assistant message of the
\* response, whatever other requests did to the store at the awaits of
\* the call.
C25_ResponseIsStored ==
    Answered =>
        /\ Held(sessions, resp[1].session_id)
        /\ LET c == sessions[IndexOf(sessions, resp[1].session_id)]
           IN  /\ c.messages # << >>
               /\ c.messages[Len(c.messages)].role = "assistant"
               /\ c.messages[Len(c.messages)].content = resp[1].response

\* C26: while no create_faq, update_faq or delete_faq call is between its
\* write and its return, the list cached for a language is the list a search
\* starting now would load from the store, so every search scores the FAQs
\* as the latest completed change left them.
C26_CacheIsFresh ==
    faq_admin.pc = "idle" =>
        \A p \in cached_faqs :
            p[2] = loaded_faqs(find_language(faq_store, p[1]), p[1])

\* C27: when the call is at the language-model stage and the store still
\* holds the context it works on, the prompt it built is not the bare
\* English query: it starts with "Previous conversation:" and the history
\* line right before the current question is the user's message of this
\* turn as it was sent, also when that is the only message of the session.
C27_PromptHoldsTurn ==
    (pm.pc = "llm" /\ IsNone(conv)) =>
        LET p == pm.context_prompt[1]
        IN  /\ p # pm.english_message
            /\ StartsWith(p, "Previous conversation:\n")
            /\ Contains(p, "User: " \o pm.request.message
                             \o "\n\nCurrent question: " \o pm.english_message)

\* the first message of a new session, sent in Hindi, reached the
\* language-model stage while another session was created meanwhile
C27_Witness ==
    /\ pm.pc = "llm" /\ IsNone(conv)
    /\ IsNone(pm.request.session_id)
    /\ pm.detected_lang = "hi"
    /\ pm.request.message # pm.english_message
    /\ Len(Conversation.messages) = 1
    /\ Len(sessions) = 2
    /\ pm.context_prompt[1] =
         "Previous conversation:\nUser: " \o pm.request.message
           \o "\n\nCurrent question: " \o pm.english_message
           \o "\n\nPlease consider the conversation context when answering."

\* C28: a get_or_create_session call for an id the store holds removes no
\* session and changes no context (so no updated_at and not the count): the
\* contexts are those held before, the one asked for is now the most
\* recently used and the others keep their order, also when the context
\* asked for is idle beyond the timeout.  No step other than the creation
\* of a new session or clear_session removes a session, so an expired
\* session stays retrievable until then.
C28_HitEvictsNothing ==
    [][ /\ lastOp'.op = "hit" =>
              LET sid == lastOp'.sid
                  others == SelectSeq(sessions, LAMBDA c : c.session_id # sid)
              IN  /\ lastOp'.removed = {}
                  /\ lastOp'.result
                  /\ Len(sessions') = Len(sessions)
                  /\ sessions'[Len(sessions')] = sessions[IndexOf(sessions, sid)]
                  /\ SubSeq(sessions', 1, Len(sessions') - 1) = others
        /\ SessionIdsOf(sessions) \subseteq SessionIdsOf(sessions')
              \/ lastOp'.op \in {"create", "clear"}
      ]_vars

\* a hit on a session idle beyond the timeout, held together with a session
\* created after it: the expired session is returned, as most recently used
C28_Witness ==
    /\ lastOp.op = "hit"
    /\ Len(sessions) = 2
    /\ sessions[2].session_id = lastOp.sid
    /\ IsExpired(sessions[2], now)
    /\ sessions[1].created_at > sessions[2].created_at

\* C29: right after a get_or_create_session call the store holds a context
\* under the id asked for, which is the one the call returned: the call
\* removed other ids only, and after a creation the context is the new one,
\* empty and most recently used, whatever the eviction of that creation
\* removed.
C29_ReturnedIsHeld ==
    lastOp.op \in {"create", "hit"} =>
        /\ lastOp.result
        /\ Held(sessions, lastOp.sid)
        /\ lastOp.sid \notin lastOp.removed
        /\ sessions[Len(sessions)].session_id = lastOp.sid
        /\ lastOp.op = "create" =>
              sessions[Len(sessions)] = NewContext(lastOp.sid, "en", now)

\* a creation into a full store with no time elapsed: its eviction removed
\* a live session for the ceiling and kept the new one
C29_Witness ==
    /\ lastOp.op = "create"
    /\ now = 0
    /\ Cardinality(lastOp.removed) = 1
    /\ Len(sessions) = MaxSessions
    /\ Held(sessions, lastOp.sid)

\* C30: at every moment each client has been answered True at most
\* requests_per_minute times within the window that ends now (so within any
\* window of that length); a call that is refused records nothing and
\* leaves the answers the client will get at any later time as they were;
\* and a call of one client changes neither the recorded requests nor any
\* later answer of another client.
C30_RateLimit ==
    [][ /\ \A c \in Clients : Len(rate_last'.granted[c]) <= RequestsPerMinute
        /\ (clock' = clock /\ ~IsNone(rate_last'.client_id)) =>
              LET c == rate_last'.client_id[1]
                  Later == clock .. (MaxClock + RateWindow)
              IN  /\ \A d \in Clients \ {c} :
                        /\ requests'[d] = requests[d]
                        /\ \A t \in Later :
                              is_allowed(requests', d, t).result
                                = is_allowed(requests, d, t).result
                  /\ ~rate_last'.allowed =>
                        /\ Len(requests'[c]) <= Len(requests[c])
                        /\ recent_requests(requests'[c], clock)
                             = recent_requests(requests[c], clock)
                        /\ \A t \in Later :
                              is_allowed(requests', c, t).result
                                = is_allowed(requests, c, t).result
                  /\ rate_last'.allowed =>
                        Len(recent_requests(requests[c], clock)) < RequestsPerMinute
      ]_vars

\* a client is refused while its requests_per_minute calls of the current
\* window stand, the other client having been let through at the same time
C30_Witness ==
    /\ ~IsNone(rate_last.client_id)
    /\ ~rate_last.allowed
    /\ rate_last.remaining = Some(0)
    /\ clock >= RateWindow
    /\ LET c == rate_last.client_id[1]
       IN  /\ Len(rate_last.granted[c]) = RequestsPerMinute
           /\ \E d \in Clients \ {c} :
                 /\ rate_last.granted[d] # << >>
                 /\ rate_last.granted[d][Len(rate_last.granted[d])] = clock

====
